---- MODULE Spec2Model ----
(***************************************************************************)
(* Ledger & Fulfillment Engine of the BSC store server (src/server.js).    *)
(*                                                                         *)
(* The persistent store is modelled collection by collection: products,    *)
(* customers, orders, ledger, udharEntries, udharPayments, counters.  A    *)
(* request handler is a process held in a slot of `req`; a handler is cut  *)
(* into steps at its awaited database writes (a read is taken together     *)
(* with the write that follows it where nothing is decided in between), so *)
(* that handlers interleave where the event loop lets them.  Amounts are   *)
(* whole numbers of the smallest currency unit, on which                   *)
(* parseFloat(x.toFixed(2)) is exact.                                      *)
(***************************************************************************)
EXTENDS Integers, Sequences, FiniteSets, TLC

\* ------------------------------------------------------------------ bounds
MaxStock == 2      \* largest initial stockQuantity of a tracked product
MaxOrders == 2     \* orders the orderId counter may hand out
MaxLedger == 3     \* entries the ledgerId counter may hand out
MaxLegacy == 2     \* records the udharId / udharPayId counters may hand out

\* null / undefined of a numeric field (customerId, orderId, legacyId)
null == 0

Slots == {1, 2}

\* ------------------------------------------------------------- collections
VARIABLES
  products,       \* products: id -> [tracked, stockQuantity, disabled]
  customers,      \* customers: set of [customerId, phone, deleted]
  orders,         \* orders: sequence of order documents, in insertion order
  ledger,         \* ledger: sequence of ledger entries, in insertion order
  udharEntries,   \* legacy credit records
  udharPayments,  \* legacy payment records
  counters,       \* counters: name -> seq
  req,            \* req: slot -> the request handler running in it
  posted,         \* history: customerId -> credits minus payments requested so
                  \* far, each posting request counted once
  milkSubscriptions,  \* milk subscriptions, in insertion order
  milkLogs,           \* milk delivery logs, in insertion order
  milkPayments        \* milk payments, in insertion order

\* the collections of the milk service
milkStore == <<milkSubscriptions, milkLogs, milkPayments>>

vars == <<products, customers, orders, ledger, udharEntries, udharPayments,
          counters, req, posted, milkStore>>

\* new Date().toISOString().slice(0, 7) while the model runs, and the month
\* before it
ThisMonth == "2024-05"
LastMonth == "2024-04"
Months == {LastMonth, ThisMonth}

\* --------------------------------------------------------------- catalogue
\* The part of the product documents no modelled handler writes: variants
\* and their priceTiers (stored unsorted, the handler sorts them).
ProductIds == {1, 2, 3}

Tier(m, p) == [minQty |-> m, price |-> p]

Catalog ==
  (1 :> <<[id |-> "v1", priceTiers |-> <<Tier(2, 7), Tier(1, 8)>>]>>) @@
  (2 :> <<[id |-> "v1", priceTiers |-> <<Tier(1, 5)>>],
          [id |-> "v2", priceTiers |-> <<Tier(3, 3), Tier(2, 4)>>]>>) @@
  (3 :> <<[id |-> "v1", priceTiers |-> <<Tier(1, 6)>>]>>)

\* settings document: the free-gift configuration
Settings == [freeGift |-> [discountPrice |-> 2], milkPrice |-> 60]

\* ----------------------------------------------------------------- helpers
Range(s) == {s[i] : i \in 1..Len(s)}

RECURSIVE SumSeq(_)
SumSeq(s) == IF s = <<>> THEN 0 ELSE Head(s) + SumSeq(Tail(s))

\* getNextId: findOneAndUpdate $inc with returnDocument 'after', one atomic
\* document operation; the value handed out and the counters it leaves.
getNextId(name) == counters[name] + 1

\* a counter whose increment is not stored
BumpedNotStored(cs, name) == cs

Bumped(cs, name) == [cs EXCEPT ![name] = @ + 1]

\* tiers sorted ascending by minQty (Array.prototype.sort, stable)
RECURSIVE InsertTier(_, _)
InsertTier(t, s) ==
  IF s = <<>> THEN <<t>>
  ELSE IF t.minQty <= Head(s).minQty THEN <<t>> \o s
       ELSE <<Head(s)>> \o InsertTier(t, Tail(s))

\* the tiers in the order they are stored
SortTiersAsStored(s) == s

RECURSIVE SortTiers(_)
SortTiers(s) ==
  IF s = <<>> THEN <<>>
  ELSE InsertTier(Head(s), SortTiers(Tail(s)))

\* for (const tier of tiers) { if (qty >= tier.minQty) serverPrice = tier.price }
RECURSIVE TierLoop(_, _, _)
TierLoop(tiers, qty, price) ==
  IF tiers = <<>> THEN price
  ELSE TierLoop(Tail(tiers), qty,
                IF qty >= Head(tiers).minQty THEN Head(tiers).price ELSE price)

\* variants.find(v => v.id === item.variantId) || variants[0]
FindVariant(variants, variantId) ==
  IF \E i \in 1..Len(variants) : variants[i].id = variantId
  THEN variants[CHOOSE i \in 1..Len(variants) :
                  /\ variants[i].id = variantId
                  /\ \A j \in 1..(i - 1) : variants[j].id # variantId]
  ELSE variants[1]

ClientPriceTrusted(item) == item.price

\* tiers sorted; serverPrice = tiers[0]?.price || 0; the loop over the tiers
TierPriceOf(priceTiers, qty) ==
  LET tiers == SortTiers(priceTiers)
  IN  TierLoop(tiers, qty, IF tiers = <<>> THEN 0 ELSE tiers[1].price)

\* the unit price the server computes for a cart line
ServerPrice(item) ==
  LET variant == FindVariant(Catalog[item.productId], item.variantId)
  IN  TierPriceOf(variant.priceTiers, item.qty)

\* customers.findOne({ phone })
NoCustomer == [customerId |-> null, phone |-> "", deleted |-> FALSE]
FindCustomerByPhone(phone) ==
  IF \E c \in customers : c.phone = phone
  THEN CHOOSE c \in customers : c.phone = phone
  ELSE NoCustomer

\* ---------------------------------------------------------------- requests
Idle == [op |-> "idle"]
AllIdle == \A r \in Slots : req[r].op = "idle"

IsRegular(item) == ~item.isFreeGift
IsGift(item) == item.isFreeGift

\* entries of the collections
LedgerEntry(id, cid, type, amount, source, orderId, legacyId) ==
  [id |-> id, customerId |-> cid, type |-> type, amount |-> amount,
   source |-> source, orderId |-> orderId, legacyId |-> legacyId,
   month |-> ThisMonth]

UdharEntry(id, cid, amount, type, orderId) ==
  [id |-> id, customerId |-> cid, amount |-> amount, type |-> type,
   orderId |-> orderId, month |-> ThisMonth]

UdharPayment(id, cid, amount) ==
  [id |-> id, customerId |-> cid, amount |-> amount, month |-> ThisMonth]

\* a write that replaces the entry already linked to the document's order
upsertByOrder(collection, doc) ==
  IF doc.orderId # null /\ \E k \in 1..Len(collection) : collection[k].orderId = doc.orderId
  THEN [k \in 1..Len(collection) |->
          IF collection[k].orderId = doc.orderId THEN doc ELSE collection[k]]
  ELSE Append(collection, doc)

\* db.collection('ledger').insertOne(doc)
insertOne(collection, doc) == Append(collection, doc)

\* ------------------------------------------------- POST /api/orders
\* items.filter(i => !i.isFreeGift) and items.filter(i => i.isFreeGift)
RegularItems(items) == SelectSeq(items, IsRegular)
GiftItems(items) == SelectSeq(items, IsGift)

InFlightOrders == Cardinality({r \in Slots : req[r].op = "order" /\ req[r].pc # "done"})

\* the handler's locals once the body is read; pre records the store as the
\* request found it
OrderRequest(body) ==
  [op |-> "order", pc |-> "findProduct", body |-> body,
   regularItems |-> RegularItems(body.items), i |-> 1,
   validatedItems |-> <<>>, recalcTotal |-> 0,
   total |-> 0, id |-> null, customerId |-> null, addedToUdhar |-> FALSE,
   result |-> "",
   pre |-> [products |-> products, nOrders |-> Len(orders), nLedger |-> Len(ledger)]]

\* res.status(4xx).json(...): the handler returns, nothing else is written
Rejected(s, reason) == [s EXCEPT !.pc = "done", !.result = reason]

\* end of one iteration of the for loop over regularItems
NextItem(s) ==
  IF s.i < Len(s.regularItems)
  THEN [s EXCEPT !.i = @ + 1, !.pc = "findProduct"]
  ELSE [s EXCEPT !.i = @ + 1, !.pc = "createOrder"]

\* recalcTotal += serverPrice * item.qty; validatedItems.push({...item, price})
Priced(s, item) ==
  LET serverPrice == ServerPrice(item)
  IN  NextItem([s EXCEPT !.recalcTotal = @ + serverPrice * item.qty,
                         !.validatedItems = Append(@, [item EXCEPT !.price = serverPrice])])

\* every product taken as one that carries a stock count
IsTrackedAlways(product) == TRUE

\* typeof product.stockQuantity === 'number'
IsTracked(product) == product.tracked

\* the request arrives: body validation, then the loop starts
PlaceOrder(r, body) ==
  /\ req[r].op = "idle"
  /\ counters.orderId + InFlightOrders < MaxOrders
  /\ req' = [req EXCEPT ![r] =
       IF body.items = <<>> THEN Rejected(OrderRequest(body), "missing_fields")
       ELSE IF RegularItems(body.items) = <<>>
            THEN [OrderRequest(body) EXCEPT !.pc = "createOrder"]
            ELSE OrderRequest(body)]
  /\ UNCHANGED <<products, customers, orders, ledger, udharEntries,
                 udharPayments, counters, posted, milkStore>>

\* products.findOne({ id: item.productId }) and the checks on what it read
FindProduct(r) ==
  /\ req[r].op = "order" /\ req[r].pc = "findProduct"
  /\ LET s == req[r]
         item == s.regularItems[s.i]
     IN  req' = [req EXCEPT ![r] =
           IF item.productId \notin ProductIds THEN NextItem(s)
           ELSE LET product == products[item.productId] IN
             IF product.disabled THEN Rejected(s, "unavailable")
             ELSE IF IsTracked(product)
                  THEN IF product.stockQuantity = 0 THEN Rejected(s, "out_of_stock")
                       ELSE IF product.stockQuantity < item.qty
                            THEN Rejected(s, "insufficient_stock")
                            ELSE [s EXCEPT !.pc = "reserve"]
                  ELSE Priced(s, item)]
  /\ UNCHANGED <<products, customers, orders, ledger, udharEntries,
                 udharPayments, counters, posted, milkStore>>

\* a filter on the product id alone
StockFilterIdOnly(product, qty) == product.tracked

\* a filter with $gt in place of $gte
StockFilterStrict(product, qty) == product.tracked /\ product.stockQuantity > qty

\* the filter { id: item.productId, stockQuantity: { $gte: item.qty } }
StockFilter(product, qty) == product.tracked /\ product.stockQuantity >= qty

\* findOneAndUpdate(filter, { $inc: { stockQuantity: -item.qty } }): one atomic
\* document operation; no match is the "stock changed" rejection
Reserve(r) ==
  /\ req[r].op = "order" /\ req[r].pc = "reserve"
  /\ LET s == req[r]
         item == s.regularItems[s.i]
         product == products[item.productId]
     IN  IF StockFilter(product, item.qty)
         THEN /\ products' = [products EXCEPT
                     ![item.productId].stockQuantity = @ - item.qty]
              /\ req' = [req EXCEPT ![r] = Priced(s, item)]
         ELSE /\ req' = [req EXCEPT ![r] = Rejected(s, "stock_changed")]
              /\ UNCHANGED products
  /\ UNCHANGED <<customers, orders, ledger, udharEntries, udharPayments, counters, posted, milkStore>>

\* a credit for every order of a registered customer
OnAccountAnyMethod(body, customer) == customer.customerId # null

\* if (paymentMethod === 'account' && customer)
OnAccount(body, customer) ==
  body.paymentMethod = "account" /\ customer.customerId # null

\* settings.findOne, total, getNextId('orderId'), customers.findOne({ phone })
CreateOrder(r) ==
  /\ req[r].op = "order" /\ req[r].pc = "createOrder"
  /\ LET s == req[r]
         giftPrice == IF s.body.freeGift THEN Settings.freeGift.discountPrice ELSE 0
         customer == FindCustomerByPhone(s.body.phone)
     IN  req' = [req EXCEPT ![r] =
           [s EXCEPT !.total = s.recalcTotal + giftPrice,
                     !.id = getNextId("orderId"),
                     !.customerId = customer.customerId,
                     !.pc = IF OnAccount(s.body, customer)
                            THEN "postLedger" ELSE "insertOrder"]]
  /\ counters' = Bumped(counters, "orderId")
  /\ UNCHANGED <<products, customers, orders, ledger, udharEntries, udharPayments, posted, milkStore>>

\* ledger.insertOne({ id: await getNextId('ledgerId'), type: 'credit', ... })
PostOrderCredit(r) ==
  /\ req[r].op = "order" /\ req[r].pc = "postLedger"
  /\ LET s == req[r]
     IN  ledger' = insertOne(ledger, LedgerEntry(getNextId("ledgerId"), s.customerId,
                            "credit", s.total, "app_order", s.id, null))
  /\ counters' = Bumped(counters, "ledgerId")
  /\ posted' = [posted EXCEPT ![req[r].customerId] = @ + req[r].total]
  /\ req' = [req EXCEPT ![r].pc = "postLegacy"]
  /\ UNCHANGED <<products, customers, orders, udharEntries, udharPayments, milkStore>>

\* udharEntries.insertOne({ id: await getNextId('udharId'), ... })
PostOrderLegacy(r) ==
  /\ req[r].op = "order" /\ req[r].pc = "postLegacy"
  /\ LET s == req[r]
     IN  udharEntries' = Append(udharEntries, UdharEntry(getNextId("udharId"),
                            s.customerId, s.total, "app_order", s.id))
  /\ counters' = Bumped(counters, "udharId")
  /\ req' = [req EXCEPT ![r].pc = "insertOrder", ![r].addedToUdhar = TRUE]
  /\ UNCHANGED <<products, customers, orders, ledger, udharPayments, posted, milkStore>>

\* orders.insertOne(order); res.json({ ok: true, order })
InsertOrder(r) ==
  /\ req[r].op = "order" /\ req[r].pc = "insertOrder"
  /\ LET s == req[r]
     IN  orders' = Append(orders,
           [id |-> s.id, phone |-> s.body.phone, customerId |-> s.customerId,
            items |-> s.validatedItems \o GiftItems(s.body.items),
            total |-> s.total, freeGift |-> s.body.freeGift,
            paymentMethod |-> s.body.paymentMethod,
            status |-> "pending", addedToUdhar |-> s.addedToUdhar,
            stockRestored |-> FALSE, paid |-> FALSE, month |-> ThisMonth])
  /\ req' = [req EXCEPT ![r].pc = "done", ![r].result = "ok"]
  /\ UNCHANGED <<products, customers, ledger, udharEntries, udharPayments, counters, posted, milkStore>>

\* orders.insertOne throws: catch (e) { res.status(500) }, the id is spent
InsertOrderFails(r) ==
  /\ req[r].op = "order" /\ req[r].pc = "insertOrder"
  /\ req' = [req EXCEPT ![r].pc = "done", ![r].result = "error"]
  /\ UNCHANGED <<products, customers, orders, ledger, udharEntries,
                 udharPayments, counters, posted, milkStore>>

\* the pricing of one cart line of a variant with the given tiers
PriceLine(r) ==
  /\ req[r].op = "price" /\ req[r].pc = "price"
  /\ req' = [req EXCEPT ![r].serverPrice = TierPriceOf(req[r].priceTiers, req[r].qty),
                        ![r].pc = "done"]
  /\ UNCHANGED <<products, customers, orders, ledger, udharEntries,
                 udharPayments, counters, posted, milkStore>>

\* the response has been sent: the slot is free for the next request
Respond(r) ==
  /\ req[r].op # "idle" /\ req[r].pc = "done"
  /\ req' = [req EXCEPT ![r] = Idle]
  /\ UNCHANGED <<products, customers, orders, ledger, udharEntries,
                 udharPayments, counters, posted, milkStore>>

\* ------------------------------------------ PUT /api/admin/orders/:id
\* orders.findOne({ id }): the position of the document, 0 when there is none
OrderIndex(id) ==
  IF \E k \in 1..Len(orders) : orders[k].id = id
  THEN CHOOSE k \in 1..Len(orders) : orders[k].id = id
  ELSE 0

\* a release on every transition into cancelled
RestoresStockEveryCancel(newStatus, existing) ==
  newStatus = "cancelled" /\ existing.status # "cancelled"

\* newStatus === 'cancelled' && existing.status !== 'cancelled' && !existing.stockRestored
RestoresStock(newStatus, existing) ==
  newStatus = "cancelled" /\ existing.status # "cancelled" /\ ~existing.stockRestored

\* a request body: the fields it carries and their values; the admin screen
\* sends { status }, the handler accepts any field of the order
StatusBody(status) ==
  [fields |-> {"status"}, status |-> status, stockRestored |-> FALSE]
StatusBodyClearingFlag(status) ==
  [fields |-> {"status", "stockRestored"}, status |-> status, stockRestored |-> FALSE]

\* the request arrives: the order is read and the handler decides whether it
\* restores stock; body is req.body, to which the handler adds stockRestored
UpdateOrder(r, orderId, body) ==
  /\ req[r].op = "idle"
  /\ \A p \in ProductIds : products[p].stockQuantity <= MaxStock
  /\ LET k == OrderIndex(orderId)
         s == [op |-> "updateOrder", pc |-> "writeOrder", orderId |-> orderId,
               sent |-> body, body |-> body,
               existingStatus |-> "", regularItems |-> <<>>,
               i |-> 1, restores |-> FALSE, result |-> ""]
     IN  req' = [req EXCEPT ![r] =
           IF k = 0 THEN [s EXCEPT !.pc = "done", !.result = "not_found"]
           ELSE IF RestoresStock(body.status, orders[k])
                THEN LET regular == RegularItems(orders[k].items)
                     IN  [s EXCEPT !.existingStatus = orders[k].status,
                                   !.regularItems = regular,
                                   !.restores = TRUE,
                                   !.pc = IF regular = <<>> THEN "writeOrder" ELSE "restore"]
                ELSE [s EXCEPT !.existingStatus = orders[k].status]]
  /\ UNCHANGED <<products, customers, orders, ledger, udharEntries,
                 udharPayments, counters, posted, milkStore>>

\* one iteration of the loop: products.findOne, then for a tracked product
\* updateOne({ id }, { $inc: { stockQuantity: item.qty } })
RestoreItem(r) ==
  /\ req[r].op = "updateOrder" /\ req[r].pc = "restore"
  /\ LET s == req[r]
         item == s.regularItems[s.i]
     IN  /\ products' =
              IF item.productId \in ProductIds /\ IsTracked(products[item.productId])
              THEN [products EXCEPT ![item.productId].stockQuantity = @ + item.qty]
              ELSE products
         /\ req' = [req EXCEPT ![r] =
              [s EXCEPT !.i = @ + 1,
                        !.pc = IF s.i < Len(s.regularItems) THEN "restore" ELSE "writeOrder"]]
  /\ UNCHANGED <<customers, orders, ledger, udharEntries, udharPayments, counters, posted, milkStore>>

\* req.body.stockRestored = true after the loop, then
\* orders.findOneAndUpdate({ id }, { $set: req.body })
WriteOrder(r) ==
  /\ req[r].op = "updateOrder" /\ req[r].pc = "writeOrder"
  /\ LET s == req[r]
         k == OrderIndex(s.orderId)
         body == IF s.restores
                 THEN [s.body EXCEPT !.fields = @ \cup {"stockRestored"},
                                     !.stockRestored = TRUE]
                 ELSE s.body
     IN  IF k = 0
         THEN /\ req' = [req EXCEPT ![r].pc = "done", ![r].result = "not_found"]
              /\ UNCHANGED orders
         ELSE /\ orders' = [orders EXCEPT
                     ![k].status = body.status,
                     ![k].stockRestored =
                        IF "stockRestored" \in body.fields THEN body.stockRestored ELSE @]
              /\ req' = [req EXCEPT ![r].pc = "done", ![r].result = "ok", ![r].body = body]
  /\ UNCHANGED <<products, customers, ledger, udharEntries, udharPayments, counters, posted, milkStore>>

\* ---------------------------------- PATCH /api/admin/products/:id/stock
\* the body carries a relative adjustment or an absolute stockQuantity
PatchBodies ==
  {[adjustment |-> TRUE, n |-> n] : n \in {-1, 1}}
  \cup {[adjustment |-> FALSE, n |-> -1]}

\* products.findOne({ id }) and the update computed from what it read
PatchStock(r, id, body) ==
  /\ req[r].op = "idle"
  /\ id \in ProductIds
  /\ LET product == products[id]
         current == IF product.tracked THEN product.stockQuantity ELSE 0
         n == IF body.adjustment THEN current + body.n ELSE body.n
     IN  /\ n <= MaxStock
         /\ req' = [req EXCEPT ![r] =
              [op |-> "patchStock", pc |-> "write", id |-> id,
               stockQuantity |-> IF n > 0 THEN n ELSE 0, result |-> ""]]
  /\ UNCHANGED <<products, customers, orders, ledger, udharEntries,
                 udharPayments, counters, posted, milkStore>>

\* products.findOneAndUpdate({ id }, { $set: update })
PatchStockWrite(r) ==
  /\ req[r].op = "patchStock" /\ req[r].pc = "write"
  /\ products' = [products EXCEPT ![req[r].id].tracked = TRUE,
                                  ![req[r].id].stockQuantity = req[r].stockQuantity]
  /\ req' = [req EXCEPT ![r].pc = "done", ![r].result = "ok"]
  /\ UNCHANGED <<customers, orders, ledger, udharEntries, udharPayments, counters, posted, milkStore>>

\* -------------------------------------- PUT /api/admin/products/:id
\* update.stockQuantity = parseInt(update.stockQuantity); $set: update
EditProduct(id, stockQuantity) ==
  /\ id \in ProductIds
  /\ products' = [products EXCEPT ![id].tracked = TRUE,
                                  ![id].stockQuantity = stockQuantity]
  /\ UNCHANGED <<customers, orders, ledger, udharEntries, udharPayments,
                 counters, req, posted, milkStore>>

\* ------------------------------------------------ POST /api/admin/ledger
\* body { customerId, type, amount }: validation, getNextId('ledgerId'), insertOne
PostLedger(customerId, type, amount) ==
  /\ counters.ledgerId < MaxLedger
  /\ customerId # null /\ amount # 0
  /\ type \in {"credit", "payment"}
  /\ ledger' = Append(ledger, LedgerEntry(getNextId("ledgerId"), customerId, type,
                                          amount, "none", null, null))
  /\ counters' = Bumped(counters, "ledgerId")
  /\ posted' = [posted EXCEPT ![customerId] =
                  IF type = "credit" THEN @ + amount ELSE @ - amount]
  /\ UNCHANGED <<products, customers, orders, udharEntries, udharPayments, req, milkStore>>

\* a PUT body: the keys it carries and their values (date as its month)
LedgerBody(fields, amount, date, type, customerId) ==
  [fields |-> fields, amount |-> amount, date |-> date, type |-> type,
   customerId |-> customerId]

\* an update made of the whole body: { $set: req.body }
LedgerUpdateWholeBody(body) == body.fields

\* const { amount, note, date } = req.body; the keys of update:
\* amount if amount != null, date if date is truthy
LedgerUpdate(body) ==
  {f \in body.fields \cap {"amount", "date"} : f = "date" => body.date # ""}

\* PUT /api/admin/ledger/:id: updateOne({ id }, { $set: update })
PutLedger(id, body) ==
  /\ \E k \in 1..Len(ledger) : ledger[k].id = id
  /\ LET update == LedgerUpdate(body)
         Set(e) == [e EXCEPT
           !.amount = IF "amount" \in update THEN body.amount ELSE @,
           !.month = IF "date" \in update THEN body.date ELSE @,
           !.type = IF "type" \in update THEN body.type ELSE @,
           !.customerId = IF "customerId" \in update THEN body.customerId ELSE @]
     IN  ledger' = [k \in 1..Len(ledger) |->
                      IF ledger[k].id = id THEN Set(ledger[k]) ELSE ledger[k]]
  /\ UNCHANGED <<products, customers, orders, udharEntries, udharPayments,
                 counters, req, posted, milkStore>>

\* PUT /api/admin/ledger/:id with body { amount }: $set amount on the entry
EditLedger(id, amount) == PutLedger(id, LedgerBody({"amount"}, amount, "", "", null))

\* DELETE /api/admin/ledger/:id: deleteOne({ id })
DeleteLedger(id) ==
  /\ \E k \in 1..Len(ledger) : ledger[k].id = id
  /\ ledger' = SelectSeq(ledger, LAMBDA e : e.id # id)
  /\ UNCHANGED <<products, customers, orders, udharEntries, udharPayments,
                 counters, req, posted, milkStore>>

\* ------------------------------------------------- POST /api/admin/udhar
\* the credit goes to the ledger (source 'manual') ...
PostUdhar(r, customerId, amount) ==
  /\ req[r].op = "idle"
  /\ counters.ledgerId < MaxLedger /\ counters.udharId < MaxLegacy
  /\ customerId # null /\ amount # 0
  /\ ledger' = Append(ledger, LedgerEntry(getNextId("ledgerId"), customerId, "credit",
                                          amount, "manual", null, null))
  /\ counters' = Bumped(counters, "ledgerId")
  /\ posted' = [posted EXCEPT ![customerId] = @ + amount]
  /\ req' = [req EXCEPT ![r] = [op |-> "postUdhar", pc |-> "postLegacy",
                                customerId |-> customerId, amount |-> amount,
                                result |-> ""]]
  /\ UNCHANGED <<products, customers, orders, udharEntries, udharPayments, milkStore>>

\* ... and also to udharEntries
PostUdharLegacy(r) ==
  /\ req[r].op = "postUdhar" /\ req[r].pc = "postLegacy"
  /\ udharEntries' = Append(udharEntries, UdharEntry(getNextId("udharId"),
                              req[r].customerId, req[r].amount, "purchase", null))
  /\ counters' = Bumped(counters, "udharId")
  /\ req' = [req EXCEPT ![r].pc = "done", ![r].result = "ok"]
  /\ UNCHANGED <<products, customers, orders, ledger, udharPayments, posted, milkStore>>

\* PUT /api/admin/udhar/:id with body { amount }: $set on the legacy record
EditUdhar(id, amount) ==
  /\ \E k \in 1..Len(udharEntries) : udharEntries[k].id = id
  /\ udharEntries' = [k \in 1..Len(udharEntries) |->
                        IF udharEntries[k].id = id
                        THEN [udharEntries[k] EXCEPT !.amount = amount]
                        ELSE udharEntries[k]]
  /\ UNCHANGED <<products, customers, orders, ledger, udharPayments,
                 counters, req, posted, milkStore>>

\* ---------------------------------------- POST /api/admin/udhar-payments
\* the payment goes to the ledger (source 'payment') ...
PostUdharPayment(r, customerId, amount) ==
  /\ req[r].op = "idle"
  /\ counters.ledgerId < MaxLedger /\ counters.udharPayId < MaxLegacy
  /\ customerId # null /\ amount # 0
  /\ ledger' = Append(ledger, LedgerEntry(getNextId("ledgerId"), customerId, "payment",
                                          amount, "payment", null, null))
  /\ counters' = Bumped(counters, "ledgerId")
  /\ posted' = [posted EXCEPT ![customerId] = @ - amount]
  /\ req' = [req EXCEPT ![r] = [op |-> "postUdharPayment", pc |-> "postLegacy",
                                customerId |-> customerId, amount |-> amount,
                                result |-> ""]]
  /\ UNCHANGED <<products, customers, orders, udharEntries, udharPayments, milkStore>>

\* ... and also to udharPayments
PostUdharPaymentLegacy(r) ==
  /\ req[r].op = "postUdharPayment" /\ req[r].pc = "postLegacy"
  /\ udharPayments' = Append(udharPayments, UdharPayment(getNextId("udharPayId"),
                               req[r].customerId, req[r].amount))
  /\ counters' = Bumped(counters, "udharPayId")
  /\ req' = [req EXCEPT ![r].pc = "done", ![r].result = "ok"]
  /\ UNCHANGED <<products, customers, orders, ledger, udharEntries, posted, milkStore>>

\* --------------------------- POST /api/admin/orders/:id/convert-to-udhar
\* customers.findOne({ $or: [{ phone }, { customerId }] })
FindCustomerByPhoneOrId(phone, customerId) ==
  IF \E c \in customers : c.phone = phone \/ c.customerId = customerId
  THEN CHOOSE c \in customers : c.phone = phone \/ c.customerId = customerId
  ELSE NoCustomer

\* what a handler that posts for an order found in the store when it started
StoreSeen ==
  [orders |-> orders, ledger |-> ledger, udharEntries |-> udharEntries,
   udharPayments |-> udharPayments]

\* a conversion that never refuses a converted order
AlreadyConvertedNever(order) == FALSE

\* if (order.addedToUdhar) return 400 'Already added to udhar'
AlreadyConverted(order) == order.addedToUdhar

\* the order and the customer are read and the request is checked
ConvertToUdhar(r, orderId) ==
  /\ req[r].op = "idle"
  /\ counters.ledgerId < MaxLedger /\ counters.udharId < MaxLegacy
  /\ LET k == OrderIndex(orderId)
         s == [op |-> "convert", pc |-> "postLedger", orderId |-> orderId,
               customerId |-> null, total |-> 0, result |-> "", pre |-> StoreSeen]
     IN  req' = [req EXCEPT ![r] =
           IF k = 0 THEN [s EXCEPT !.pc = "done", !.result = "not_found"]
           ELSE IF AlreadyConverted(orders[k])
                THEN [s EXCEPT !.pc = "done", !.result = "already_added"]
                ELSE LET customer == FindCustomerByPhoneOrId(orders[k].phone,
                                                             orders[k].customerId)
                     IN  IF customer.customerId = null
                         THEN [s EXCEPT !.pc = "done", !.result = "no_customer"]
                         ELSE [s EXCEPT !.customerId = customer.customerId,
                                        !.total = orders[k].total]]
  /\ UNCHANGED <<products, customers, orders, ledger, udharEntries,
                 udharPayments, counters, posted, milkStore>>

\* ledger.insertOne({ type: 'credit', amount: order.total, source: 'app_order' })
ConvertPostLedger(r) ==
  /\ req[r].op = "convert" /\ req[r].pc = "postLedger"
  /\ ledger' = insertOne(ledger, LedgerEntry(getNextId("ledgerId"), req[r].customerId,
                         "credit", req[r].total, "app_order", req[r].orderId, null))
  /\ counters' = Bumped(counters, "ledgerId")
  /\ posted' = [posted EXCEPT ![req[r].customerId] = @ + req[r].total]
  /\ req' = [req EXCEPT ![r].pc = "postLegacy"]
  /\ UNCHANGED <<products, customers, orders, udharEntries, udharPayments, milkStore>>

\* udharEntries.insertOne({ type: 'app_order', orderId, ... })
ConvertPostLegacy(r) ==
  /\ req[r].op = "convert" /\ req[r].pc = "postLegacy"
  /\ udharEntries' = Append(udharEntries, UdharEntry(getNextId("udharId"),
                         req[r].customerId, req[r].total, "app_order", req[r].orderId))
  /\ counters' = Bumped(counters, "udharId")
  /\ req' = [req EXCEPT ![r].pc = "updateOrder"]
  /\ UNCHANGED <<products, customers, orders, ledger, udharPayments, posted, milkStore>>

\* orders.updateOne({ id }, { $set: { addedToUdhar: true, customerId } })
ConvertUpdateOrder(r) ==
  /\ req[r].op = "convert" /\ req[r].pc = "updateOrder"
  /\ orders' = [k \in 1..Len(orders) |->
                  IF orders[k].id = req[r].orderId
                  THEN [orders[k] EXCEPT !.addedToUdhar = TRUE,
                                         !.customerId = req[r].customerId]
                  ELSE orders[k]]
  /\ req' = [req EXCEPT ![r].pc = "done", ![r].result = "ok"]
  /\ UNCHANGED <<products, customers, ledger, udharEntries, udharPayments,
                 counters, posted, milkStore>>

\* --------------------------------- POST /api/admin/orders/:id/mark-paid
\* a ledger document of type credit for the payment
OrderPaymentAsCredit(id, customerId, total, orderId) ==
  LedgerEntry(id, customerId, "credit", total, "order_payment", orderId, null)

\* { type: 'payment', amount: parseFloat(order.total), source: 'order_payment', orderId }
OrderPayment(id, customerId, total, orderId) ==
  LedgerEntry(id, customerId, "payment", total, "order_payment", orderId, null)

\* the order and the customer are read
MarkPaid(r, orderId) ==
  /\ req[r].op = "idle"
  /\ counters.ledgerId < MaxLedger
  /\ LET k == OrderIndex(orderId)
         s == [op |-> "markPaid", pc |-> "postLedger", orderId |-> orderId,
               customerId |-> null, total |-> 0, result |-> "", pre |-> StoreSeen]
     IN  req' = [req EXCEPT ![r] =
           IF k = 0 THEN [s EXCEPT !.pc = "done", !.result = "not_found"]
           ELSE LET customer == FindCustomerByPhoneOrId(orders[k].phone,
                                                        orders[k].customerId)
                IN  IF customer.customerId = null
                    THEN [s EXCEPT !.pc = "done", !.result = "not_found"]
                    ELSE [s EXCEPT !.customerId = customer.customerId,
                                   !.total = orders[k].total]]
  /\ UNCHANGED <<products, customers, orders, ledger, udharEntries,
                 udharPayments, counters, posted, milkStore>>

\* a handler that posts the payment only for an order not yet paid
MarkPaidPostLedgerOnce(r) ==
  /\ req[r].op = "markPaid" /\ req[r].pc = "postLedger"
  /\ LET paid == orders[OrderIndex(req[r].orderId)].paid
     IN  /\ ledger' = IF paid THEN ledger
                      ELSE Append(ledger, OrderPayment(getNextId("ledgerId"),
                                    req[r].customerId, req[r].total, req[r].orderId))
         /\ counters' = IF paid THEN counters ELSE Bumped(counters, "ledgerId")
         /\ posted' = IF paid THEN posted
                      ELSE [posted EXCEPT ![req[r].customerId] = @ - req[r].total]
  /\ req' = [req EXCEPT ![r].pc = "updateOrder"]
  /\ UNCHANGED <<products, customers, orders, udharEntries, udharPayments, milkStore>>

\* ledger.insertOne({ type: 'payment', amount: order.total, source: 'order_payment' })
MarkPaidPostLedger(r) ==
  /\ req[r].op = "markPaid" /\ req[r].pc = "postLedger"
  /\ ledger' = insertOne(ledger, OrderPayment(getNextId("ledgerId"), req[r].customerId,
                                           req[r].total, req[r].orderId))
  /\ counters' = Bumped(counters, "ledgerId")
  /\ posted' = [posted EXCEPT ![req[r].customerId] = @ - req[r].total]
  /\ req' = [req EXCEPT ![r].pc = "updateOrder"]
  /\ UNCHANGED <<products, customers, orders, udharEntries, udharPayments, milkStore>>

\* orders.updateOne({ id }, { $set: { paid: true, paidAt } })
MarkPaidUpdateOrder(r) ==
  /\ req[r].op = "markPaid" /\ req[r].pc = "updateOrder"
  /\ orders' = [k \in 1..Len(orders) |->
                  IF orders[k].id = req[r].orderId
                  THEN [orders[k] EXCEPT !.paid = TRUE]
                  ELSE orders[k]]
  /\ req' = [req EXCEPT ![r].pc = "done", ![r].result = "ok"]
  /\ UNCHANGED <<products, customers, ledger, udharEntries, udharPayments,
                 counters, posted, milkStore>>

\* ------------------------------------ POST /api/admin/migrate-to-ledger
\* a lookup by legacyId alone, whatever the source tag
IsMigratedAnySource(source, legacyId) ==
  \E k \in 1..Len(ledger) : ledger[k].legacyId = legacyId

\* a lookup that finds nothing
IsMigratedNever(source, legacyId) == FALSE

\* ledger.findOne({ source, legacyId })
IsMigrated(source, legacyId) ==
  \E k \in 1..Len(ledger) :
    ledger[k].source = source /\ ledger[k].legacyId = legacyId

\* legacy records without their ledger copy
UnmigratedCredits ==
  Cardinality({k \in 1..Len(udharEntries) :
                 ~ \E j \in 1..Len(ledger) :
                     /\ ledger[j].source = "legacy_udhar"
                     /\ ledger[j].legacyId = udharEntries[k].id})
UnmigratedPayments ==
  Cardinality({k \in 1..Len(udharPayments) :
                 ~ \E j \in 1..Len(ledger) :
                     /\ ledger[j].source = "legacy_payment"
                     /\ ledger[j].legacyId = udharPayments[k].id})

\* a run that moves the record: the legacy collection loses it
LegacyMoved(records, id) == SelectSeq(records, LAMBDA x : x.id # id)

\* the legacy collection after the record with this id was copied: the run
\* writes to the ledger only
LegacyKept(records, id) == records

\* where the loops go after record i of the collection being copied
MigrateNext(s) ==
  IF s.pc \in {"checkCredit", "insertCredit"}
  THEN IF s.i < Len(s.entries) THEN [s EXCEPT !.i = @ + 1, !.pc = "checkCredit"]
       ELSE IF s.payments # <<>> THEN [s EXCEPT !.i = 1, !.pc = "checkPayment"]
            ELSE [s EXCEPT !.pc = "done", !.result = "ok"]
  ELSE IF s.i < Len(s.payments) THEN [s EXCEPT !.i = @ + 1, !.pc = "checkPayment"]
       ELSE [s EXCEPT !.pc = "done", !.result = "ok"]

\* both legacy collections are read; pre records what the run found
Migrate(r) ==
  /\ req[r].op = "idle"
  /\ counters.ledgerId + UnmigratedCredits + UnmigratedPayments <= MaxLedger
  /\ LET s == [op |-> "migrate", pc |-> "checkCredit", entries |-> udharEntries,
               payments |-> udharPayments, i |-> 1,
               migratedCredits |-> 0, migratedPayments |-> 0, result |-> "",
               pre |-> [nLedger |-> Len(ledger),
                        unmigratedCredits |-> UnmigratedCredits,
                        unmigratedPayments |-> UnmigratedPayments]]
     IN  req' = [req EXCEPT ![r] =
           IF udharEntries # <<>> THEN s
           ELSE IF udharPayments # <<>> THEN [s EXCEPT !.pc = "checkPayment"]
                ELSE [s EXCEPT !.pc = "done", !.result = "ok"]]
  /\ UNCHANGED <<products, customers, orders, ledger, udharEntries,
                 udharPayments, counters, posted, milkStore>>

\* ledger.findOne({ source: 'legacy_udhar', legacyId: e.id })
MigrateCheckCredit(r) ==
  /\ req[r].op = "migrate" /\ req[r].pc = "checkCredit"
  /\ LET s == req[r]
     IN  req' = [req EXCEPT ![r] =
           IF IsMigrated("legacy_udhar", s.entries[s.i].id) THEN MigrateNext(s)
           ELSE [s EXCEPT !.pc = "insertCredit"]]
  /\ UNCHANGED <<products, customers, orders, ledger, udharEntries,
                 udharPayments, counters, posted, milkStore>>

\* ledger.insertOne({ type: 'credit', source: 'legacy_udhar', legacyId: e.id })
MigrateInsertCredit(r) ==
  /\ req[r].op = "migrate" /\ req[r].pc = "insertCredit"
  /\ LET s == req[r]
         e == s.entries[s.i]
     IN  /\ ledger' = insertOne(ledger,
              [LedgerEntry(getNextId("ledgerId"), e.customerId, "credit", e.amount,
                           "legacy_udhar", null, e.id) EXCEPT !.month = e.month])
         /\ req' = [req EXCEPT ![r] =
              MigrateNext([s EXCEPT !.migratedCredits = @ + 1])]
  /\ counters' = Bumped(counters, "ledgerId")
  /\ udharEntries' = LegacyKept(udharEntries, req[r].entries[req[r].i].id)
  /\ UNCHANGED <<products, customers, orders, udharPayments, posted, milkStore>>

\* ledger.findOne({ source: 'legacy_payment', legacyId: p.id })
MigrateCheckPayment(r) ==
  /\ req[r].op = "migrate" /\ req[r].pc = "checkPayment"
  /\ LET s == req[r]
     IN  req' = [req EXCEPT ![r] =
           IF IsMigrated("legacy_payment", s.payments[s.i].id) THEN MigrateNext(s)
           ELSE [s EXCEPT !.pc = "insertPayment"]]
  /\ UNCHANGED <<products, customers, orders, ledger, udharEntries,
                 udharPayments, counters, posted, milkStore>>

\* ledger.insertOne({ type: 'payment', source: 'legacy_payment', legacyId: p.id })
MigrateInsertPayment(r) ==
  /\ req[r].op = "migrate" /\ req[r].pc = "insertPayment"
  /\ LET s == req[r]
         p == s.payments[s.i]
     IN  /\ ledger' = insertOne(ledger,
              [LedgerEntry(getNextId("ledgerId"), p.customerId, "payment", p.amount,
                           "legacy_payment", null, p.id) EXCEPT !.month = p.month])
         /\ req' = [req EXCEPT ![r] =
              MigrateNext([s EXCEPT !.migratedPayments = @ + 1])]
  /\ counters' = Bumped(counters, "ledgerId")
  /\ udharPayments' = LegacyKept(udharPayments, req[r].payments[req[r].i].id)
  /\ UNCHANGED <<products, customers, orders, udharEntries, posted, milkStore>>

\* ----------------------------------------------------------------- milk
MaxLogs == 2       \* logs the milkLogId counter may hand out
MaxMilkPayments == 1   \* milk payments that may be recorded

\* a || b on numbers
OrElse(a, b) == IF a # 0 THEN a ELSE b

\* a date 'YYYY-MM-DD' and date.slice(0, 7)
Date(month, day) == [month |-> month, day |-> day]
MonthOf(date) == date.month

\* items.reduce((s, i) => s + parseFloat(i.qty || 0), 0)
RECURSIVE ItemsQty(_)
ItemsQty(items) ==
  IF items = <<>> THEN 0 ELSE Head(items).qty + ItemsQty(Tail(items))

\* items.reduce((s, i) => s + parseFloat(i.qty || 0) * parseFloat(i.price || 0), 0)
RECURSIVE ItemsAmount(_)
ItemsAmount(items) ==
  IF items = <<>> THEN 0
  ELSE Head(items).qty * Head(items).price + ItemsAmount(Tail(items))

\* milkLogs.findOne({ customerId, date }): position of the first match, or 0
FindMilkLog(customerId, date) ==
  IF \E k \in 1..Len(milkLogs) :
       milkLogs[k].customerId = customerId /\ milkLogs[k].date = date
  THEN CHOOSE k \in 1..Len(milkLogs) :
         /\ milkLogs[k].customerId = customerId /\ milkLogs[k].date = date
         /\ \A j \in 1..(k - 1) :
              ~(milkLogs[j].customerId = customerId /\ milkLogs[j].date = date)
  ELSE 0

\* the sequence without its k-th element
RemoveAt(seq, k) ==
  [j \in 1..(Len(seq) - 1) |-> IF j < k THEN seq[j] ELSE seq[j + 1]]

\* POST /api/admin/milk/logs: the body is read, existing = findOne
PostMilkLog(r, body) ==
  /\ req[r].op = "idle"
  /\ counters.milkLogId + Cardinality({x \in Slots : req[x].op \in {"milkLog", "bulkMark"}
                                                     /\ req[x].pc # "done"}) < MaxLogs
  /\ req' = [req EXCEPT ![r] =
       [op |-> "milkLog", pc |-> "write", body |-> body,
        totalQty |-> IF body.items # <<>> THEN ItemsQty(body.items) ELSE body.qty,
        existing |-> FindMilkLog(body.customerId, body.date) # 0,
        result |-> ""]]
  /\ UNCHANGED <<products, customers, orders, ledger, udharEntries,
                 udharPayments, counters, posted, milkStore>>

\* the write chosen from what the read found: deleteOne, updateOne or insertOne
PostMilkLogWrite(r) ==
  /\ req[r].op = "milkLog" /\ req[r].pc = "write"
  /\ LET s == req[r]
         b == s.body
         price == OrElse(b.price, OrElse(Settings.milkPrice, 60))
         k == FindMilkLog(b.customerId, b.date)
     IN  IF s.existing
         THEN /\ milkLogs' =
                   IF k = 0 THEN milkLogs
                   ELSE IF s.totalQty = 0 THEN RemoveAt(milkLogs, k)
                   ELSE [milkLogs EXCEPT
                           ![k].qty = s.totalQty, ![k].price = price,
                           ![k].items = IF b.items # <<>> THEN b.items ELSE @]
              /\ UNCHANGED counters
         ELSE IF s.totalQty > 0
              THEN /\ milkLogs' = Append(milkLogs,
                        [id |-> getNextId("milkLogId"), customerId |-> b.customerId,
                         date |-> b.date, month |-> MonthOf(b.date),
                         qty |-> s.totalQty, price |-> price, items |-> b.items])
                   /\ counters' = Bumped(counters, "milkLogId")
              ELSE UNCHANGED <<milkLogs, counters>>
  /\ req' = [req EXCEPT ![r].pc = "done", ![r].result = "ok"]
  /\ UNCHANGED <<products, customers, orders, ledger, udharEntries,
                 udharPayments, posted, milkSubscriptions, milkPayments>>

\* where the bulk-mark loop goes after subscription i
BulkMarkNext(s) ==
  IF s.i < Len(s.subs) THEN [s EXCEPT !.i = @ + 1, !.pc = "check"]
  ELSE [s EXCEPT !.pc = "done", !.result = "ok"]

\* POST /api/admin/milk/bulk-mark: the active subscriptions are read
BulkMark(r, date) ==
  /\ req[r].op = "idle"
  /\ counters.milkLogId + Cardinality({x \in Slots : req[x].op \in {"milkLog", "bulkMark"}
                                                     /\ req[x].pc # "done"}) < MaxLogs
  /\ LET subs == SelectSeq(milkSubscriptions, LAMBDA x : x.status = "active")
         s == [op |-> "bulkMark", pc |-> "check", date |-> date, subs |-> subs,
               i |-> 1, marked |-> 0, result |-> ""]
     IN  req' = [req EXCEPT ![r] =
           IF subs = <<>> THEN [s EXCEPT !.pc = "done", !.result = "ok"] ELSE s]
  /\ UNCHANGED <<products, customers, orders, ledger, udharEntries,
                 udharPayments, counters, posted, milkStore>>

\* existing = milkLogs.findOne({ customerId: sub.customerId, date })
BulkMarkCheck(r) ==
  /\ req[r].op = "bulkMark" /\ req[r].pc = "check"
  /\ LET s == req[r]
     IN  req' = [req EXCEPT ![r] =
           IF FindMilkLog(s.subs[s.i].customerId, s.date) # 0 THEN BulkMarkNext(s)
           ELSE [s EXCEPT !.pc = "insert"]]
  /\ UNCHANGED <<products, customers, orders, ledger, udharEntries,
                 udharPayments, counters, posted, milkStore>>

\* milkLogs.insertOne({ id: await getNextId('milkLogId'), ... }); marked++
BulkMarkInsert(r) ==
  /\ req[r].op = "bulkMark" /\ req[r].pc = "insert"
  /\ LET s == req[r]
         sub == s.subs[s.i]
     IN  /\ milkLogs' = Append(milkLogs,
              [id |-> getNextId("milkLogId"), customerId |-> sub.customerId,
               date |-> s.date, month |-> MonthOf(s.date), qty |-> sub.defaultQty,
               price |-> OrElse(sub.pricePerLitre, OrElse(Settings.milkPrice, 60)),
               items |-> <<>>])
         /\ req' = [req EXCEPT ![r] = BulkMarkNext([s EXCEPT !.marked = @ + 1])]
  /\ counters' = Bumped(counters, "milkLogId")
  /\ UNCHANGED <<products, customers, orders, ledger, udharEntries,
                 udharPayments, posted, milkSubscriptions, milkPayments>>

\* POST /api/admin/milk/payment: milkPayments.insertOne({ customerId, month, amount })
PostMilkPayment(customerId, month, amount) ==
  /\ Len(milkPayments) < MaxMilkPayments
  /\ milkPayments' = Append(milkPayments,
       [customerId |-> customerId, month |-> month, amount |-> amount])
  /\ UNCHANGED <<products, customers, orders, ledger, udharEntries, udharPayments,
                 counters, req, posted, milkSubscriptions, milkLogs>>

\* POST /api/admin/milk/subscriptions: the customer and an existing
\* subscription are looked up
PostSubscription(r, customerId) ==
  /\ req[r].op = "idle"
  /\ LET s == [op |-> "subscribe", pc |-> "insert", customerId |-> customerId,
               result |-> ""]
     IN  req' = [req EXCEPT ![r] =
           IF customerId = null THEN [s EXCEPT !.pc = "done", !.result = "bad_request"]
           ELSE IF ~ \E c \in customers : c.customerId = customerId
                THEN [s EXCEPT !.pc = "done", !.result = "not_found"]
           ELSE IF \E k \in 1..Len(milkSubscriptions) :
                     milkSubscriptions[k].customerId = customerId
                THEN [s EXCEPT !.pc = "done", !.result = "conflict"]
           ELSE s]
  /\ UNCHANGED <<products, customers, orders, ledger, udharEntries,
                 udharPayments, counters, posted, milkStore>>

\* milkSubscriptions.insertOne(sub), with defaultQty 1 and the default price
PostSubscriptionInsert(r) ==
  /\ req[r].op = "subscribe" /\ req[r].pc = "insert"
  /\ milkSubscriptions' = Append(milkSubscriptions,
       [customerId |-> req[r].customerId, defaultQty |-> 1,
        pricePerLitre |-> OrElse(Settings.milkPrice, 60), status |-> "active"])
  /\ req' = [req EXCEPT ![r].pc = "done", ![r].result = "ok"]
  /\ UNCHANGED <<products, customers, orders, ledger, udharEntries, udharPayments,
                 counters, posted, milkLogs, milkPayments>>

\* ---------------------------------------- DELETE /api/admin/customers/:id
\* hard: deleteOne / deleteMany({ customerId }) on seven collections;
\* otherwise $set: { deleted: true, deletedAt }
DeleteCustomer(customerId, hard) ==
  LET Others(seq) == SelectSeq(seq, LAMBDA x : x.customerId # customerId)
  IN  IF hard
      THEN /\ customers' = {c \in customers : c.customerId # customerId}
           /\ milkSubscriptions' =
                IF \E k \in 1..Len(milkSubscriptions) :
                     milkSubscriptions[k].customerId = customerId
                THEN RemoveAt(milkSubscriptions,
                       CHOOSE k \in 1..Len(milkSubscriptions) :
                         /\ milkSubscriptions[k].customerId = customerId
                         /\ \A j \in 1..(k - 1) :
                              milkSubscriptions[j].customerId # customerId)
                ELSE milkSubscriptions
           /\ ledger' = Others(ledger)
           /\ udharEntries' = Others(udharEntries)
           /\ udharPayments' = Others(udharPayments)
           /\ milkLogs' = Others(milkLogs)
           /\ milkPayments' = Others(milkPayments)
           /\ UNCHANGED <<products, orders, counters, req, posted>>
      ELSE /\ customers' = {IF c.customerId = customerId
                            THEN [c EXCEPT !.deleted = TRUE] ELSE c : c \in customers}
           /\ UNCHANGED <<products, orders, ledger, udharEntries, udharPayments,
                          counters, req, posted, milkStore>>

\* ------------------------------------------------------------- balances
\* entries.forEach(e => { credit: balance += amount; payment: balance -= amount })
RECURSIVE BalanceFold(_, _)
BalanceFold(entries, balance) ==
  IF entries = <<>> THEN balance
  ELSE BalanceFold(Tail(entries),
         IF Head(entries).type = "credit" THEN balance + Head(entries).amount
         ELSE IF Head(entries).type = "payment" THEN balance - Head(entries).amount
              ELSE balance)

\* a fold over the whole collection
getCustomerBalanceUnfiltered(customerId) == BalanceFold(ledger, 0)

\* getCustomerBalance: the fold over ledger.find({ customerId })
getCustomerBalance(customerId) ==
  BalanceFold(SelectSeq(ledger, LAMBDA e : e.customerId = customerId), 0)

\* oldBalMap: legacy credits minus legacy payments of the customer
oldUdharBalance(customerId) ==
  SumSeq([k \in 1..Len(udharEntries) |->
            IF udharEntries[k].customerId = customerId THEN udharEntries[k].amount ELSE 0])
  - SumSeq([k \in 1..Len(udharPayments) |->
            IF udharPayments[k].customerId = customerId THEN udharPayments[k].amount ELSE 0])

\* balance: (balanceMap[c] || 0) + (oldBalMap[c] || 0), as the admin customer
\* list, the customer detail, the udhar summary and the dashboard report it
ReportedBalance(customerId) ==
  getCustomerBalance(customerId) + oldUdharBalance(customerId)

\* ------------------------------------------- GET /api/customer/ledger
\* an entry of the statement; id is the prefix and the key of the record
StatementEntry(prefix, key, type, amount) ==
  [id |-> <<prefix, key>>, type |-> type, amount |-> amount]

\* amount of a milk log in the statement: itemized, or qty times the price
MilkLogAmount(l) ==
  IF l.items # <<>> THEN ItemsAmount(l.items)
  ELSE l.qty * OrElse(l.price, OrElse(Settings.milkPrice, 60))

\* type of the statement entry of a ledger entry: by type for app_order and
\* legacy_udhar, and by type for the others
LedgerEntryType(e) ==
  IF e.source \in {"app_order", "legacy_udhar"}
  THEN (IF e.type = "credit" THEN "udhar" ELSE "udhar_payment")
  ELSE IF e.type = "payment" THEN "udhar_payment"
       ELSE "udhar"

\* the entries pushed for customer cid and the month, in the order of the
\* pushes (the handler then sorts them by date and time)
StatementEntries(cid, phone, month) ==
  LET logs == SelectSeq(milkLogs, LAMBDA l : l.customerId = cid /\ l.month = month)
      pays == SelectSeq(milkPayments, LAMBDA x : x.customerId = cid /\ x.month = month)
      ords == SelectSeq(orders, LAMBDA o :
                /\ o.customerId = cid \/ o.phone = phone
                /\ o.status # "cancelled"
                /\ o.month = month)
      leds == SelectSeq(ledger, LAMBDA e :
                /\ e.customerId = cid /\ e.month = month
                /\ e.type \in {"credit", "payment"})
      olds == SelectSeq(udharEntries, LAMBDA e : e.customerId = cid /\ e.month = month)
      oldp == SelectSeq(udharPayments, LAMBDA x : x.customerId = cid /\ x.month = month)
  IN  [k \in 1..Len(logs) |->
         StatementEntry("milk", logs[k].id, "milk", MilkLogAmount(logs[k]))]
      \o [k \in 1..Len(pays) |->
         StatementEntry("milkpay", pays[k].amount, "payment", pays[k].amount)]
      \o [k \in 1..Len(ords) |->
         StatementEntry("order", ords[k].id, "order", ords[k].total)]
      \o [k \in 1..Len(leds) |->
         StatementEntry("ledger", leds[k].id, LedgerEntryType(leds[k]), leds[k].amount)]
      \o [k \in 1..Len(olds) |->
         StatementEntry("udhar", olds[k].id, "udhar", olds[k].amount)]
      \o [k \in 1..Len(oldp) |->
         StatementEntry("udpay", oldp[k].id, "udhar_payment", oldp[k].amount)]

\* entries.filter(e => types).reduce((s, e) => s + e.amount, 0)
TypeTotal(entries, types) ==
  SumSeq([k \in 1..Len(entries) |->
            IF entries[k].type \in types THEN entries[k].amount ELSE 0])

\* a summary whose payments leave out the store payments
StatementSummaryMilkPaymentsOnly(entries) ==
  LET milkTotal == TypeTotal(entries, {"milk"})
      orderTotal == TypeTotal(entries, {"order"})
      udharTotal == TypeTotal(entries, {"udhar"})
      paymentsTotal == TypeTotal(entries, {"payment"})
      totalDebits == milkTotal + orderTotal + udharTotal
  IN  [milkTotal |-> milkTotal, orderTotal |-> orderTotal, udharTotal |-> udharTotal,
       paymentsTotal |-> paymentsTotal, totalDebits |-> totalDebits,
       outstanding |-> totalDebits - paymentsTotal]

\* summary: { milkTotal, orderTotal, udharTotal, paymentsTotal, totalDebits,
\* outstanding: totalDebits - paymentsTotal }
StatementSummary(entries) ==
  LET milkTotal == TypeTotal(entries, {"milk"})
      orderTotal == TypeTotal(entries, {"order"})
      udharTotal == TypeTotal(entries, {"udhar"})
      paymentsTotal == TypeTotal(entries, {"payment", "udhar_payment"})
      totalDebits == milkTotal + orderTotal + udharTotal
  IN  [milkTotal |-> milkTotal, orderTotal |-> orderTotal, udharTotal |-> udharTotal,
       paymentsTotal |-> paymentsTotal, totalDebits |-> totalDebits,
       outstanding |-> totalDebits - paymentsTotal]

\* the handler: the customer of the token, the month of the query
GetStatement(r, cid, month) ==
  /\ req[r].op = "idle"
  /\ LET s == [op |-> "statement", pc |-> "done", cid |-> cid, month |-> month,
               entries |-> <<>>, summary |-> StatementSummary(<<>>), result |-> "ok"]
     IN  req' = [req EXCEPT ![r] =
           IF ~ \E c \in customers : c.customerId = cid
           THEN [s EXCEPT !.result = "not_found"]
           ELSE LET c == CHOOSE x \in customers : x.customerId = cid
                    entries == StatementEntries(cid, c.phone, month)
                IN  [s EXCEPT !.entries = entries,
                              !.summary = StatementSummary(entries)]]
  /\ UNCHANGED <<products, customers, orders, ledger, udharEntries,
                 udharPayments, counters, posted, milkStore>>

\* ------------------------------------ GET /api/admin/milk/billing/:month
\* a customer list that keeps the soft-deleted
ListedCustomerAny(c) == TRUE

\* customers.find({ customerId: { $in: customerIds }, deleted: { $ne: true } })
ListedCustomer(c) == ~c.deleted

\* billed amount of a log: itemized, or qty times the first price known
MilkLogBilled(l, sub) ==
  IF l.items # <<>> THEN ItemsAmount(l.items)
  ELSE l.qty * OrElse(l.price, OrElse(sub.pricePerLitre, OrElse(Settings.milkPrice, 60)))

\* the row of one subscription
BillingRow(sub, month) ==
  LET cid == sub.customerId
      custLogs == SelectSeq(milkLogs, LAMBDA l : l.month = month /\ l.customerId = cid)
      pays == SelectSeq(milkPayments, LAMBDA x : x.month = month /\ x.customerId = cid)
      totalBilled == SumSeq([k \in 1..Len(custLogs) |-> MilkLogBilled(custLogs[k], sub)])
      totalPaid == SumSeq([k \in 1..Len(pays) |-> pays[k].amount])
  IN  [customerId |-> cid, dailyQty |-> sub.defaultQty,
       totalLitres |-> SumSeq([k \in 1..Len(custLogs) |-> custLogs[k].qty]),
       totalBilled |-> totalBilled, totalPaid |-> totalPaid,
       due |-> totalBilled - totalPaid]

\* customerIds.map(cid => custMap[cid] ? row : null).filter(Boolean)
BillingRows(month) ==
  LET listed == SelectSeq(milkSubscriptions, LAMBDA sub :
                  \E c \in customers : c.customerId = sub.customerId /\ ListedCustomer(c))
  IN  [k \in 1..Len(listed) |-> BillingRow(listed[k], month)]

\* the handler: the rows and the totals over the rows
GetMilkBilling(r, month) ==
  /\ req[r].op = "idle"
  /\ LET billing == BillingRows(month)
     IN  req' = [req EXCEPT ![r] =
           [op |-> "billing", pc |-> "done", month |-> month, billing |-> billing,
            totals |->
              [totalBilled |-> SumSeq([k \in 1..Len(billing) |-> billing[k].totalBilled]),
               totalPaid |-> SumSeq([k \in 1..Len(billing) |-> billing[k].totalPaid]),
               totalDue |-> SumSeq([k \in 1..Len(billing) |-> billing[k].due])],
            result |-> "ok"]]
  /\ UNCHANGED <<products, customers, orders, ledger, udharEntries,
                 udharPayments, counters, posted, milkStore>>

\* ------------------------------------------------------------ initial state
\* Product 1 is stock-tracked, product 2 is tracked or untracked (legacy
\* document without stockQuantity), product 3 is disabled.
Tracked(q) == [tracked |-> TRUE, stockQuantity |-> q, disabled |-> FALSE]
Untracked == [tracked |-> FALSE, stockQuantity |-> 0, disabled |-> FALSE]

InitProducts ==
  {(1 :> Tracked(a)) @@ (2 :> b) @@ (3 :> [Untracked EXCEPT !.disabled = TRUE]) :
     a \in 0..MaxStock, b \in {Untracked} \cup {Tracked(q) : q \in 0..MaxStock}}

InitCustomers ==
  {[customerId |-> 1, phone |-> "p1", deleted |-> FALSE],
   [customerId |-> 2, phone |-> "p2", deleted |-> FALSE]}

CustomerIds == {c.customerId : c \in InitCustomers}

InitCounters ==
  [orderId |-> 0, ledgerId |-> 0, udharId |-> 0, udharPayId |-> 0, customerId |-> 2,
   milkLogId |-> 0]

Init ==
  /\ products \in InitProducts
  /\ customers = InitCustomers
  /\ orders = <<>>
  /\ ledger = <<>>
  /\ udharEntries = <<>>
  /\ udharPayments = <<>>
  /\ counters = InitCounters
  /\ req = [r \in Slots |-> Idle]
  /\ posted = [c \in CustomerIds |-> 0]
  /\ milkSubscriptions = <<>> /\ milkLogs = <<>> /\ milkPayments = <<>>

\* A store that already holds records of the old credit schema: possibly one
\* legacy credit and one legacy payment of customer 1, not yet in the ledger.
LegacyCredit == UdharEntry(1, 1, 5, "purchase", null)
LegacyPayment == [UdharPayment(1, 1, 2) EXCEPT !.month = LastMonth]

InitLegacy ==
  /\ products = (1 :> Tracked(MaxStock)) @@ (2 :> Untracked)
                  @@ (3 :> [Untracked EXCEPT !.disabled = TRUE])
  /\ customers = InitCustomers
  /\ orders = <<>>
  /\ ledger = <<>>
  /\ udharEntries \in {<<>>, <<LegacyCredit>>}
  /\ udharPayments \in {<<>>, <<LegacyPayment>>}
  /\ counters = [InitCounters EXCEPT !.udharId = Len(udharEntries),
                                     !.udharPayId = Len(udharPayments)]
  /\ milkSubscriptions = <<>> /\ milkLogs = <<>> /\ milkPayments = <<>>
  /\ req = [r \in Slots |-> Idle]
  /\ posted = [c \in CustomerIds |->
                 IF c = 1 THEN SumSeq([k \in 1..Len(udharEntries) |-> udharEntries[k].amount])
                               - SumSeq([k \in 1..Len(udharPayments) |-> udharPayments[k].amount])
                 ELSE 0]

\* ------------------------------------------------------- request bodies
\* A cart line as the client submits it; the client-side price is 1, which
\* is no tier price of any product.
Line(pid, vid, qty) ==
  [productId |-> pid, variantId |-> vid, qty |-> qty, price |-> 1, isFreeGift |-> FALSE]
GiftLine ==
  [productId |-> 2, variantId |-> "v1", qty |-> 1, price |-> 0, isFreeGift |-> TRUE]

OrderBody(phone, items, paymentMethod, freeGift) ==
  [phone |-> phone, items |-> items, paymentMethod |-> paymentMethod,
   freeGift |-> freeGift]

\* product 9 is in no catalogue; variant "vX" is no variant of product 2
CheckoutCarts ==
  { <<Line(1, "v1", 1)>>,
    <<Line(1, "v1", 2)>>,
    <<Line(1, "v1", 1), Line(2, "v1", 2)>>,
    <<Line(1, "v1", 1), Line(3, "v1", 1)>>,
    <<Line(2, "v2", 1), GiftLine>>,
    <<Line(9, "v1", 1), Line(2, "vX", 1)>>,
    <<GiftLine>>,
    <<>> }

CheckoutBodies ==
  {OrderBody(who[1], items, who[2], \E i \in 1..Len(items) : items[i].isFreeGift) :
     who \in {<<"p1", "account">>, <<"p1", "cod">>, <<"p3", "account">>},
     items \in CheckoutCarts}
  \cup {OrderBody("p1", <<Line(1, "v1", 1)>>, "account", TRUE)}

\* ------------------------------------------------------- specifications
\* Checkout, one request at a time.
NextCheckout ==
  \/ \E b \in CheckoutBodies : PlaceOrder(1, b)
  \/ FindProduct(1)
  \/ Reserve(1)
  \/ CreateOrder(1)
  \/ PostOrderCredit(1)
  \/ PostOrderLegacy(1)
  \/ InsertOrder(1)
  \/ Respond(1)

SpecCheckout == Init /\ [][NextCheckout]_vars

\* Concurrent checkouts of product 1 by callers without an account.
RaceBodies == {OrderBody("p3", <<Line(1, "v1", q)>>, "cod", FALSE) : q \in 1..MaxStock}

NextRace ==
  \E r \in Slots :
    \/ \E b \in RaceBodies : PlaceOrder(r, b)
    \/ FindProduct(r)
    \/ Reserve(r)
    \/ CreateOrder(r)
    \/ InsertOrder(r)
    \/ Respond(r)

SpecRace == Init /\ [][NextRace]_vars

\* Stock-affecting requests, one at a time: checkout without an account,
\* order status edits, stock adjustment and product edit by the admin.
StockBodies ==
  {OrderBody("p3", items, "cod", FALSE) :
     items \in {<<Line(1, "v1", 1)>>, <<Line(1, "v1", 1), Line(2, "v1", 2)>>,
                <<Line(2, "v1", 1), GiftLine>>}}

Statuses == {"pending", "cancelled"}

OrderEdits ==
  {StatusBody(st) : st \in Statuses} \cup {StatusBodyClearingFlag("pending")}

NextStock ==
  \/ \E b \in StockBodies : PlaceOrder(1, b)
  \/ FindProduct(1)
  \/ Reserve(1)
  \/ CreateOrder(1)
  \/ InsertOrder(1)
  \/ \E id \in 1..MaxOrders, b \in OrderEdits : UpdateOrder(1, id, b)
  \/ RestoreItem(1)
  \/ WriteOrder(1)
  \/ \E b \in PatchBodies : PatchStock(1, 1, b)
  \/ PatchStockWrite(1)
  \/ \E q \in {-1, MaxStock} : AllIdle /\ EditProduct(1, q)
  \/ Respond(1)

SpecStock == Init /\ [][NextStock]_vars

\* Everything that posts to the ledger, one request at a time.
LedgerBodies ==
  {OrderBody("p1", <<Line(1, "v1", 1)>>, "account", FALSE),
   OrderBody("p2", <<Line(2, "v1", 1)>>, "cod", FALSE)}

ManualPosts == {<<2, "credit">>, <<1, "payment">>}

NextLedger ==
  \/ \E b \in ManualPosts : AllIdle /\ PostLedger(b[1], b[2], 3)
  \/ PostUdhar(1, 1, 4)
  \/ PostUdharLegacy(1)
  \/ PostUdharPayment(1, 2, 1)
  \/ PostUdharPaymentLegacy(1)
  \/ \E b \in LedgerBodies : PlaceOrder(1, b)
  \/ FindProduct(1)
  \/ Reserve(1)
  \/ CreateOrder(1)
  \/ PostOrderCredit(1)
  \/ PostOrderLegacy(1)
  \/ InsertOrder(1)
  \/ \E id \in 1..MaxOrders : ConvertToUdhar(1, id)
  \/ ConvertPostLedger(1)
  \/ ConvertPostLegacy(1)
  \/ ConvertUpdateOrder(1)
  \/ \E id \in 1..MaxOrders : MarkPaid(1, id)
  \/ MarkPaidPostLedger(1)
  \/ MarkPaidUpdateOrder(1)
  \/ Migrate(1)
  \/ MigrateCheckCredit(1)
  \/ MigrateInsertCredit(1)
  \/ MigrateCheckPayment(1)
  \/ MigrateInsertPayment(1)
  \/ Respond(1)

SpecLedger == InitLegacy /\ [][NextLedger]_vars

\* Migration runs one after the other, with legacy-compatible posts and
\* operator corrections between them.
NextMigrate ==
  \/ PostUdhar(1, 2, 4)
  \/ PostUdharLegacy(1)
  \/ PostUdharPayment(1, 2, 1)
  \/ PostUdharPaymentLegacy(1)
  \/ \E id \in 1..MaxLegacy : AllIdle /\ EditUdhar(id, 6)
  \/ \E id \in 1..MaxLedger : AllIdle /\ EditLedger(id, 7)
  \/ \E id \in 1..MaxLedger : AllIdle /\ DeleteLedger(id)
  \/ Migrate(1)
  \/ MigrateCheckCredit(1)
  \/ MigrateInsertCredit(1)
  \/ MigrateCheckPayment(1)
  \/ MigrateInsertPayment(1)
  \/ Respond(1)

SpecMigrate == InitLegacy /\ [][NextMigrate]_vars

\* Pricing of a line: any stored tier list of a variant, any quantity.
MaxTiers == 2

TierChoices == {Tier(m, p) : m \in {1, 2, 5}, p \in {70, 80}}

RECURSIVE TierLists(_)
TierLists(n) ==
  IF n = 0 THEN {<<>>}
  ELSE LET shorter == TierLists(n - 1)
       IN  shorter \cup {Append(l, t) : l \in {x \in shorter : Len(x) = n - 1},
                                         t \in TierChoices}

Quantities == {1, 4, 5, 100}

InitPricing ==
  /\ products = (1 :> Tracked(MaxStock)) @@ (2 :> Untracked)
                  @@ (3 :> [Untracked EXCEPT !.disabled = TRUE])
  /\ customers = InitCustomers
  /\ orders = <<>> /\ ledger = <<>> /\ udharEntries = <<>> /\ udharPayments = <<>>
  /\ counters = InitCounters
  /\ posted = [c \in CustomerIds |-> 0]
  /\ milkSubscriptions = <<>> /\ milkLogs = <<>> /\ milkPayments = <<>>
  /\ \E l \in TierLists(MaxTiers) \ {<<>>}, q \in Quantities :
       req = [r \in Slots |->
                IF r = 1
                THEN [op |-> "price", pc |-> "price", priceTiers |-> l, qty |-> q,
                      serverPrice |-> 0]
                ELSE Idle]

NextPricing == PriceLine(1)

SpecPricing == InitPricing /\ [][NextPricing]_vars

\* Concurrent checkouts drawing order ids, some failing after the draw.
NextCounter ==
  \E r \in Slots :
    \/ \E b \in RaceBodies : PlaceOrder(r, b)
    \/ FindProduct(r)
    \/ Reserve(r)
    \/ CreateOrder(r)
    \/ InsertOrder(r)
    \/ InsertOrderFails(r)
    \/ Respond(r)

SpecCounter == Init /\ [][NextCounter]_vars

\* Orders of a registered and of an unregistered caller, converted to credit
\* and marked paid by the admin, one request at a time.
InitStore ==
  /\ Init
  /\ products = (1 :> Tracked(MaxStock)) @@ (2 :> Untracked)
                  @@ (3 :> [Untracked EXCEPT !.disabled = TRUE])

AdminOrderBodies ==
  {OrderBody(who[1], <<Line(2, "v1", 1)>>, who[2], FALSE) :
     who \in {<<"p1", "account">>, <<"p1", "cod">>, <<"p3", "cod">>}}

NextAdminOrders ==
  \/ \E b \in AdminOrderBodies : PlaceOrder(1, b)
  \/ FindProduct(1)
  \/ CreateOrder(1)
  \/ PostOrderCredit(1)
  \/ PostOrderLegacy(1)
  \/ InsertOrder(1)
  \/ \E id \in 1..MaxOrders : ConvertToUdhar(1, id)
  \/ ConvertPostLedger(1)
  \/ ConvertPostLegacy(1)
  \/ ConvertUpdateOrder(1)
  \/ \E id \in 1..MaxOrders : MarkPaid(1, id)
  \/ MarkPaidPostLedger(1)
  \/ MarkPaidUpdateOrder(1)
  \/ Respond(1)

SpecAdminOrders == InitStore /\ [][NextAdminOrders]_vars

\* The customer's monthly statement after milk deliveries and payments,
\* account orders, store payments and migration runs.
StatementLogBodies ==
  {[customerId |-> 1, date |-> Date(m, 1), qty |-> 2, price |-> pr, items |-> <<>>] :
     m \in Months, pr \in {0, 55}}
  \cup {[customerId |-> 1, date |-> Date(ThisMonth, 2), qty |-> 0, price |-> 0,
          items |-> <<[qty |-> 1, price |-> 58], [qty |-> 1, price |-> 50]>>]}

StatementOrderBodies == {OrderBody("p1", <<Line(2, "v1", 1)>>, "account", FALSE)}

NextStatement ==
  \/ \E b \in StatementLogBodies : PostMilkLog(1, b)
  \/ PostMilkLogWrite(1)
  \/ AllIdle /\ PostMilkPayment(1, ThisMonth, 50)
  \/ \E b \in StatementOrderBodies : PlaceOrder(1, b)
  \/ FindProduct(1)
  \/ CreateOrder(1)
  \/ PostOrderCredit(1)
  \/ PostOrderLegacy(1)
  \/ InsertOrder(1)
  \/ AllIdle /\ PostLedger(1, "payment", 3)
  \/ Migrate(1)
  \/ MigrateCheckCredit(1)
  \/ MigrateInsertCredit(1)
  \/ MigrateCheckPayment(1)
  \/ MigrateInsertPayment(1)
  \/ \E c \in CustomerIds, m \in Months : GetStatement(1, c, m)
  \/ Respond(1)

SpecStatement == InitLegacy /\ [][NextStatement]_vars

\* Milk billing: subscriptions, deliveries, payments and soft deletes, one
\* request at a time; customer 3 does not exist.
BillingLogBodies ==
  {[customerId |-> c, date |-> Date(m, 1), qty |-> 2, price |-> 0, items |-> <<>>] :
     c \in CustomerIds, m \in Months}
  \cup {[customerId |-> 1, date |-> Date(ThisMonth, 1), qty |-> 0, price |-> 0,
          items |-> <<[qty |-> 1, price |-> 58]>>]}

NextBilling ==
  \/ \E c \in CustomerIds \cup {3} : PostSubscription(1, c)
  \/ PostSubscriptionInsert(1)
  \/ \E b \in BillingLogBodies : PostMilkLog(1, b)
  \/ PostMilkLogWrite(1)
  \/ \E c \in CustomerIds : AllIdle /\ PostMilkPayment(c, ThisMonth, 50)
  \/ \E c \in CustomerIds : AllIdle /\ DeleteCustomer(c, FALSE)
  \/ \E m \in Months : GetMilkBilling(1, m)
  \/ Respond(1)

SpecBilling == InitStore /\ [][NextBilling]_vars

\* Milk deliveries marked by two requests at a time: single logs and bulk
\* marks for one day, after customers were subscribed.
MilkDay == Date(ThisMonth, 1)

MilkRaceBodies ==
  {[customerId |-> 1, date |-> MilkDay, qty |-> q, price |-> 0, items |-> <<>>] :
     q \in {0, 2}}

NextMilkRace ==
  \E r \in Slots :
    \/ \E c \in CustomerIds : PostSubscription(r, c)
    \/ PostSubscriptionInsert(r)
    \/ \E b \in MilkRaceBodies : PostMilkLog(r, b)
    \/ PostMilkLogWrite(r)
    \/ BulkMark(r, MilkDay)
    \/ BulkMarkCheck(r)
    \/ BulkMarkInsert(r)
    \/ Respond(r)

SpecMilkRace == InitStore /\ [][NextMilkRace]_vars

\* Deleting customers that have records: account orders (with their ledger
\* and legacy credits), a milk subscription, deliveries and milk payments,
\* one request at a time.
DeleteOrderBodies == {OrderBody("p1", <<Line(2, "v1", 1)>>, "account", FALSE)}

DeleteLogBodies ==
  {[customerId |-> c, date |-> Date(ThisMonth, 1), qty |-> 2, price |-> 0,
    items |-> <<>>] : c \in CustomerIds}

NextDelete ==
  \/ \E b \in DeleteOrderBodies : PlaceOrder(1, b)
  \/ FindProduct(1)
  \/ CreateOrder(1)
  \/ PostOrderCredit(1)
  \/ PostOrderLegacy(1)
  \/ InsertOrder(1)
  \/ \E c \in CustomerIds : PostSubscription(1, c)
  \/ PostSubscriptionInsert(1)
  \/ \E b \in DeleteLogBodies : PostMilkLog(1, b)
  \/ PostMilkLogWrite(1)
  \/ \E c \in CustomerIds : AllIdle /\ PostMilkPayment(c, ThisMonth, 50)
  \/ \E c \in CustomerIds : AllIdle /\ DeleteCustomer(c, TRUE)
  \/ \E c \in CustomerIds : AllIdle /\ DeleteCustomer(c, FALSE)
  \/ Respond(1)

SpecDelete == InitStore /\ [][NextDelete]_vars

\* Status edits by the admin: a guest order of one unit of product 1, then
\* PUT /api/admin/orders/:id with any status in the body.
OrderStatuses == {"pending", "preparing", "out-for-delivery", "delivered", "cancelled"}

StatusOrderBodies == {OrderBody("p3", <<Line(1, "v1", 1)>>, "cod", FALSE)}

StatusEdits == {StatusBody(st) : st \in OrderStatuses \cup {"refunded"}}

NextStatus ==
  \/ \E b \in StatusOrderBodies : PlaceOrder(1, b)
  \/ FindProduct(1)
  \/ Reserve(1)
  \/ CreateOrder(1)
  \/ InsertOrder(1)
  \/ \E id \in 1..MaxOrders, b \in StatusEdits : UpdateOrder(1, id, b)
  \/ RestoreItem(1)
  \/ WriteOrder(1)
  \/ Respond(1)

SpecStatus == InitStore /\ [][NextStatus]_vars

\* The admin's ledger endpoints: posts with any customerId, type and amount,
\* edits and deletes of entries, next to an order placed on account.
LedgerAdminOrderBodies == {OrderBody("p1", <<Line(1, "v1", 1)>>, "account", FALSE)}

LedgerAdminPosts ==
  {<<1, "credit", -3>>, <<1, "payment", 3>>, <<1, "credit", 0>>,
   <<1, "refund", 3>>, <<null, "credit", 3>>}

\* the entry the admin edits
LedgerAdminEdited == {1}

LedgerAdminEdits ==
  {LedgerBody({"amount"}, 0, "", "", null),
   LedgerBody({"amount", "date"}, 5, LastMonth, "", null),
   LedgerBody({"amount", "date", "type", "customerId"}, 5, "", "payment", 2)}

NextLedgerAdmin ==
  \/ \E b \in LedgerAdminOrderBodies : PlaceOrder(1, b)
  \/ FindProduct(1)
  \/ Reserve(1)
  \/ CreateOrder(1)
  \/ PostOrderCredit(1)
  \/ PostOrderLegacy(1)
  \/ InsertOrder(1)
  \/ \E b \in LedgerAdminPosts : AllIdle /\ PostLedger(b[1], b[2], b[3])
  \/ \E id \in LedgerAdminEdited, b \in LedgerAdminEdits : AllIdle /\ PutLedger(id, b)
  \/ \E id \in 1..MaxLedger : AllIdle /\ DeleteLedger(id)
  \/ Respond(1)

SpecLedgerAdmin == InitStore /\ [][NextLedgerAdmin]_vars

\* Order placement whose last write, orders.insertOne, may fail.
OrderFailureBodies ==
  {OrderBody("p1", <<Line(pid, "v1", 1)>>, pm, FALSE) :
     pid \in {1, 2}, pm \in {"account", "cod"}}

NextOrderFailure ==
  \/ \E b \in OrderFailureBodies : PlaceOrder(1, b)
  \/ FindProduct(1)
  \/ Reserve(1)
  \/ CreateOrder(1)
  \/ PostOrderCredit(1)
  \/ PostOrderLegacy(1)
  \/ InsertOrder(1)
  \/ InsertOrderFails(1)
  \/ Respond(1)

SpecOrderFailure == InitStore /\ [][NextOrderFailure]_vars

\* Place, then edit the status of the order just placed: the placement stays
\* in slot 1, with the stock it found, while the admin's edits run in slot 2.
RoundTripBodies ==
  {OrderBody("p3", items, "cod", FALSE) :
     items \in {<<Line(1, "v1", 1)>>, <<Line(1, "v1", 1), Line(1, "v1", 1)>>,
                <<Line(1, "v1", MaxStock), Line(2, "v1", 2)>>,
                <<Line(2, "v1", 1), GiftLine>>}}

RoundTripEdits == {StatusBody(st) : st \in {"pending", "preparing", "cancelled"}}

Placed(r) == req[r].op = "order" /\ req[r].pc = "done" /\ req[r].result = "ok"

NextRoundTrip ==
  \/ \E b \in RoundTripBodies : PlaceOrder(1, b)
  \/ FindProduct(1)
  \/ Reserve(1)
  \/ CreateOrder(1)
  \/ InsertOrder(1)
  \/ req[2].op = "idle" /\ Respond(1)
  \/ \E b \in RoundTripEdits : Placed(1) /\ UpdateOrder(2, req[1].id, b)
  \/ RestoreItem(2)
  \/ WriteOrder(2)
  \/ Respond(2)

SpecRoundTrip == InitStore /\ [][NextRoundTrip]_vars

\* Migration runs in slot 1 while the admin posts legacy-compatible credits and
\* payments in slot 2.
NextMigrateRace ==
  \/ Migrate(1)
  \/ MigrateCheckCredit(1)
  \/ MigrateInsertCredit(1)
  \/ MigrateCheckPayment(1)
  \/ MigrateInsertPayment(1)
  \/ PostUdhar(2, 1, 4)
  \/ PostUdharLegacy(2)
  \/ PostUdharPayment(2, 1, 1)
  \/ PostUdharPaymentLegacy(2)
  \/ \E r \in Slots : Respond(r)

SpecMigrateRace == InitLegacy /\ [][NextMigrateRace]_vars

\* The operations that post to the ledger on their own: orders on account,
\* convert-to-udhar, mark-paid and migration, next to order status edits.
AppendOnlyBodies ==
  {OrderBody("p1", <<Line(2, "v1", 1)>>, pm, FALSE) : pm \in {"account", "cod"}}

AppendOnlyEdits == {StatusBody("cancelled")}

NextAppendOnly ==
  \/ \E b \in AppendOnlyBodies : PlaceOrder(1, b)
  \/ FindProduct(1)
  \/ CreateOrder(1)
  \/ PostOrderCredit(1)
  \/ PostOrderLegacy(1)
  \/ InsertOrder(1)
  \/ \E id \in 1..MaxOrders : ConvertToUdhar(1, id)
  \/ ConvertPostLedger(1)
  \/ ConvertPostLegacy(1)
  \/ ConvertUpdateOrder(1)
  \/ \E id \in 1..MaxOrders : MarkPaid(1, id)
  \/ MarkPaidPostLedger(1)
  \/ MarkPaidUpdateOrder(1)
  \/ \E id \in 1..MaxOrders, b \in AppendOnlyEdits : UpdateOrder(1, id, b)
  \/ RestoreItem(1)
  \/ WriteOrder(1)
  \/ Migrate(1)
  \/ MigrateCheckCredit(1)
  \/ MigrateInsertCredit(1)
  \/ Respond(1)

SpecAppendOnly == InitStore /\ [][NextAppendOnly]_vars

\* Orders of the untracked product 2, in small and large quantities and next
\* to a line of the tracked product 1, and their cancellation.
UntrackedBodies ==
  {OrderBody("p3", items, "cod", FALSE) :
     items \in {<<Line(2, "v1", 1)>>, <<Line(2, "v1", 100)>>, <<Line(2, "v2", 3)>>,
                <<Line(2, "v2", 2), Line(1, "v1", MaxStock)>>}}

UntrackedEdits == {StatusBody("cancelled")}

NextUntracked ==
  \/ \E b \in UntrackedBodies : PlaceOrder(1, b)
  \/ FindProduct(1)
  \/ Reserve(1)
  \/ CreateOrder(1)
  \/ InsertOrder(1)
  \/ \E id \in 1..MaxOrders, b \in UntrackedEdits : UpdateOrder(1, id, b)
  \/ RestoreItem(1)
  \/ WriteOrder(1)
  \/ Respond(1)

SpecUntracked == InitStore /\ [][NextUntracked]_vars

\* ------------------------------------------------ computeStockStatus
\* a field that holds a number, and one that is null, undefined or not a number
Num(n) == [isNumber |-> TRUE, n |-> n]
NotNum == [isNumber |-> FALSE, n |-> 0]

StockStatus(stockStatus, isLowStock) ==
  [stockStatus |-> stockStatus, isLowStock |-> isLowStock]

\* a status that is low only strictly below the threshold
computeStockStatusBelow(stockQuantity, lowStockThreshold) ==
  LET threshold == IF lowStockThreshold.isNumber THEN lowStockThreshold.n ELSE 5
  IN  IF ~stockQuantity.isNumber THEN StockStatus("In Stock", FALSE)
      ELSE IF stockQuantity.n = 0 THEN StockStatus("Out of Stock", FALSE)
      ELSE IF stockQuantity.n < threshold THEN StockStatus("Low Stock", TRUE)
      ELSE StockStatus("In Stock", FALSE)

\* computeStockStatus(stockQuantity, lowStockThreshold)
computeStockStatus(stockQuantity, lowStockThreshold) ==
  LET threshold == IF lowStockThreshold.isNumber THEN lowStockThreshold.n ELSE 5
  IN  IF ~stockQuantity.isNumber THEN StockStatus("In Stock", FALSE)
      ELSE IF stockQuantity.n = 0 THEN StockStatus("Out of Stock", FALSE)
      ELSE IF stockQuantity.n <= threshold THEN StockStatus("Low Stock", TRUE)
      ELSE StockStatus("In Stock", FALSE)

\* the function is applied to the request's arguments
ComputeStatus(r) ==
  /\ req[r].op = "stockStatus" /\ req[r].pc = "compute"
  /\ req' = [req EXCEPT
       ![r].status = computeStockStatus(req[r].stockQuantity, req[r].lowStockThreshold),
       ![r].pc = "done"]
  /\ UNCHANGED <<products, customers, orders, ledger, udharEntries,
                 udharPayments, counters, posted, milkStore>>

\* the arguments: quantities from below zero to above the default threshold,
\* thresholds around them, and fields that hold no number
StockQuantities == {Num(n) : n \in -2..8} \cup {NotNum}
Thresholds == {Num(n) : n \in 0..6} \cup {NotNum}

InitStockStatus ==
  /\ products = (1 :> Tracked(MaxStock)) @@ (2 :> Untracked)
                  @@ (3 :> [Untracked EXCEPT !.disabled = TRUE])
  /\ customers = InitCustomers
  /\ orders = <<>> /\ ledger = <<>> /\ udharEntries = <<>> /\ udharPayments = <<>>
  /\ counters = InitCounters
  /\ posted = [c \in CustomerIds |-> 0]
  /\ milkSubscriptions = <<>> /\ milkLogs = <<>> /\ milkPayments = <<>>
  /\ \E q \in StockQuantities, t \in Thresholds :
       req = [r \in Slots |->
                IF r = 1
                THEN [op |-> "stockStatus", pc |-> "compute", stockQuantity |-> q,
                      lowStockThreshold |-> t, status |-> StockStatus("", FALSE)]
                ELSE Idle]

NextStockStatus == ComputeStatus(1)

SpecStockStatus == InitStockStatus /\ [][NextStockStatus]_vars

\* Placements, accepted and rejected, and cancellations, one request at a
\* time; no stock adjustment and no product edit by the admin.
ConservationBodies ==
  {OrderBody("p3", items, "cod", FALSE) :
     items \in {<<Line(1, "v1", 1)>>, <<Line(1, "v1", MaxStock + 1)>>,
                <<Line(1, "v1", 1), Line(3, "v1", 1)>>,
                <<Line(1, "v1", 1), GiftLine>>}}

ConservationEdits == {StatusBody("cancelled")}

NextConservation ==
  \/ \E b \in ConservationBodies : PlaceOrder(1, b)
  \/ FindProduct(1)
  \/ Reserve(1)
  \/ CreateOrder(1)
  \/ InsertOrder(1)
  \/ \E id \in 1..MaxOrders, b \in ConservationEdits : UpdateOrder(1, id, b)
  \/ RestoreItem(1)
  \/ WriteOrder(1)
  \/ Respond(1)

SpecConservation == InitStore /\ [][NextConservation]_vars

\* Orders are placed one at a time; the admin's status edits of the orders
\* run concurrently, in both slots.
CancelRaceBodies ==
  {OrderBody("p3", <<Line(1, "v1", q)>>, "cod", FALSE) : q \in 1..MaxStock}

CancelRaceEdits == {StatusBody("cancelled")}

NextCancelRace ==
  \/ \E b \in CancelRaceBodies : AllIdle /\ PlaceOrder(1, b)
  \/ FindProduct(1)
  \/ Reserve(1)
  \/ CreateOrder(1)
  \/ InsertOrder(1)
  \/ \E r \in Slots :
       \/ \E id \in 1..MaxOrders, b \in CancelRaceEdits : UpdateOrder(r, id, b)
       \/ RestoreItem(r)
       \/ WriteOrder(r)
       \/ Respond(r)

SpecCancelRace == InitStore /\ [][NextCancelRace]_vars

\* Two migration runs that overlap.
NextMigrateOverlap ==
  \E r \in Slots :
    \/ Migrate(r)
    \/ MigrateCheckCredit(r)
    \/ MigrateInsertCredit(r)
    \/ MigrateCheckPayment(r)
    \/ MigrateInsertPayment(r)
    \/ Respond(r)

SpecMigrateOverlap == InitLegacy /\ [][NextMigrateOverlap]_vars

\* Orders of a registered caller are placed one at a time; the admin's
\* conversions to credit run concurrently, in both slots.
ConvertRaceBodies ==
  {OrderBody("p1", <<Line(2, "v1", 1)>>, m, FALSE) : m \in {"account", "cod"}}

NextConvertRace ==
  \/ \E b \in ConvertRaceBodies : AllIdle /\ PlaceOrder(1, b)
  \/ FindProduct(1)
  \/ CreateOrder(1)
  \/ PostOrderCredit(1)
  \/ PostOrderLegacy(1)
  \/ InsertOrder(1)
  \/ \E r \in Slots :
       \/ \E id \in 1..MaxOrders : ConvertToUdhar(r, id)
       \/ ConvertPostLedger(r)
       \/ ConvertPostLegacy(r)
       \/ ConvertUpdateOrder(r)
       \/ Respond(r)

SpecConvertRace == InitStore /\ [][NextConvertRace]_vars

\* Checkout of carts whose line quantities are negative, zero or positive,
\* one request at a time.
CartQuantities == {-1, 0, 1}

CartBodies ==
  {OrderBody("p3", <<Line(p, "v1", q)>>, "cod", FALSE) :
     p \in {1, 2}, q \in CartQuantities}

NextCart ==
  \/ \E b \in CartBodies : PlaceOrder(1, b)
  \/ FindProduct(1)
  \/ Reserve(1)
  \/ CreateOrder(1)
  \/ InsertOrder(1)
  \/ Respond(1)

SpecCart == Init /\ [][NextCart]_vars

\* Concurrent checkouts of product 1, of any quantity from zero to the whole
\* stock.
QuantityRaceBodies ==
  {OrderBody("p3", <<Line(1, "v1", q)>>, "cod", FALSE) : q \in 0..MaxStock}

NextQuantityRace ==
  \E r \in Slots :
    \/ \E b \in QuantityRaceBodies : PlaceOrder(r, b)
    \/ FindProduct(r)
    \/ Reserve(r)
    \/ CreateOrder(r)
    \/ InsertOrder(r)
    \/ Respond(r)

SpecQuantityRace == Init /\ [][NextQuantityRace]_vars

\* ============================================================ properties
StockRejections == {"out_of_stock", "insufficient_stock", "stock_changed"}
Rejections == StockRejections \cup {"unavailable"}

OrderDone(r) == req[r].op = "order" /\ req[r].pc = "done"

\* two requests for one unit of product 1 that both arrived while one unit
\* was left, and have both been answered
LastUnitRace(r1, r2) ==
  /\ r1 # r2
  /\ OrderDone(r1) /\ OrderDone(r2)
  /\ \A r \in {r1, r2} :
       /\ req[r].body.items = <<Line(1, "v1", 1)>>
       /\ req[r].pre.products[1].stockQuantity = 1

\* C1: no oversell. Two concurrent orders for one unit each of a product with
\* stockQuantity 1: exactly one is created, the other is rejected for stock,
\* and the product ends at stockQuantity 0, whatever the interleaving.
C1_NoOversell ==
  \A r1, r2 \in Slots :
    LastUnitRace(r1, r2) =>
      /\ \E w \in {r1, r2} :
           /\ req[w].result = "ok"
           /\ \A l \in {r1, r2} \ {w} : req[l].result \in StockRejections
      /\ Cardinality({k \in 1..Len(orders) :
                        orders[k].id \in {req[r1].id, req[r2].id}}) = 1
      /\ products[1].stockQuantity = 0

C1_Witness ==
  \E r1, r2 \in Slots :
    /\ LastUnitRace(r1, r2)
    /\ req[r1].result = "ok"
    /\ req[r2].result = "stock_changed"

\* C2: a rejected order leaves no partial reservation: every product has the
\* stockQuantity the request found, and no order or ledger entry was created.
C2_NoPartialReservation ==
  (OrderDone(1) /\ req[1].result \in Rejections) =>
    /\ products = req[1].pre.products
    /\ Len(orders) = req[1].pre.nOrders
    /\ Len(ledger) = req[1].pre.nLedger

\* the tier price of a line, as the pricing rule states it: the tier with the
\* greatest minQty <= qty of the line's variant (the first variant when the
\* id names none), or the tier with the least minQty when none qualifies
TierPrice(line) ==
  LET vs == Catalog[line.productId]
      named == {i \in 1..Len(vs) : vs[i].id = line.variantId}
      v == IF named = {} THEN vs[1] ELSE vs[CHOOSE i \in named : \A j \in named : i <= j]
      all == Range(v.priceTiers)
      ok == {t \in all : t.minQty <= line.qty}
  IN  IF ok # {}
      THEN (CHOOSE t \in ok : \A u \in ok : u.minQty <= t.minQty).price
      ELSE (CHOOSE t \in all : \A u \in all : t.minQty <= u.minQty).price

RECURSIVE LinesTotal(_)
LinesTotal(items) ==
  IF items = <<>> THEN 0
  ELSE Head(items).price * Head(items).qty + LinesTotal(Tail(items))

\* C3: every regular line of a persisted order carries the server tier price
\* for its quantity, not the price the client sent, and the total is the sum
\* of price x quantity over the regular lines plus the free-gift discountPrice
\* when the order has a free gift.
C3_PriceIntegrity ==
  \A k \in 1..Len(orders) :
    LET o == orders[k]
        regular == RegularItems(o.items)
    IN  /\ \A i \in 1..Len(regular) : regular[i].price = TierPrice(regular[i])
        /\ o.total = LinesTotal(regular)
                      + (IF o.freeGift THEN Settings.freeGift.discountPrice ELSE 0)

\* an order with a free gift and a regular line whose tier price (the default
\* tier, 4) is not the client's 1
C3_Witness ==
  \E k \in 1..Len(orders) :
    /\ orders[k].freeGift
    /\ orders[k].total = 6
    /\ \E i \in 1..Len(orders[k].items) :
         ~orders[k].items[i].isFreeGift /\ orders[k].items[i].price = 4

\* C10: placing an order posts a ledger credit exactly when paymentMethod is
\* 'account' and a customer has the order's phone: then one credit of the
\* order's total, source app_order, linked to the new order, is appended and
\* the order is stored with addedToUdhar; otherwise nothing is appended, the
\* order has addedToUdhar false, and customerId null when no customer matches.
C10_CreditIffAccount ==
  (OrderDone(1) /\ req[1].result = "ok") =>
    LET o == orders[Len(orders)]
        matches == {c \in customers : c.phone = req[1].body.phone}
        appended == SubSeq(ledger, req[1].pre.nLedger + 1, Len(ledger))
    IN  /\ Len(orders) = req[1].pre.nOrders + 1
        /\ IF req[1].body.paymentMethod = "account" /\ matches # {}
           THEN /\ Len(appended) = 1
                /\ appended[1].type = "credit"
                /\ appended[1].amount = o.total
                /\ appended[1].source = "app_order"
                /\ appended[1].orderId = o.id
                /\ \E c \in matches : appended[1].customerId = c.customerId
                /\ o.addedToUdhar
           ELSE /\ appended = <<>>
                /\ ~o.addedToUdhar
        /\ matches = {} => o.customerId = null
        /\ matches # {} => \E c \in matches : o.customerId = c.customerId

C10_Witness ==
  /\ OrderDone(1) /\ req[1].result = "ok"
  /\ req[1].body.paymentMethod = "account"
  /\ orders[Len(orders)].addedToUdhar
  /\ orders[Len(orders)].total > 0
  /\ Len(ledger) = req[1].pre.nLedger + 1

\* C4: a numeric stockQuantity is never negative, whatever the order
\* placements, cancellations, stock adjustments and product edits.
C4_StockNeverNegative ==
  \A p \in ProductIds : products[p].tracked => products[p].stockQuantity >= 0

\* a step of an order edit running in slot r whose body is { status }
StatusEditStep(r) ==
  /\ req[r].op = "updateOrder" /\ req'[r] # req[r]
  /\ req[r].sent.fields = {"status"}

\* C5: once an order is stored with stockRestored = true, no status edit of
\* that order (cancelling again, or leaving cancelled and cancelling again)
\* changes any product's stockQuantity, and none clears the flag.
C5_CancelIdempotent ==
  [][\A k \in 1..Len(orders), r \in Slots :
       (orders[k].stockRestored /\ StatusEditStep(r) /\ req[r].orderId = orders[k].id)
         => products' = products /\ orders'[k].stockRestored]_vars

\* an order with a line of tracked product 1, once released, taken out of
\* cancelled by a status edit, has been cancelled again
C5_Witness ==
  /\ req[1].op = "updateOrder" /\ req[1].pc = "done" /\ req[1].result = "ok"
  /\ req[1].sent = StatusBody("cancelled") /\ req[1].existingStatus = "pending"
  /\ ~req[1].restores
  /\ LET o == orders[OrderIndex(req[1].orderId)]
     IN  /\ o.stockRestored /\ o.status = "cancelled"
         /\ \E i \in 1..Len(o.items) : o.items[i].productId = 1

RECURSIVE AmountSum(_)
AmountSum(S) ==
  IF S = {} THEN 0
  ELSE LET e == CHOOSE x \in S : TRUE IN e.amount + AmountSum(S \ {e})

EntriesOf(c, type) == {e \in Range(ledger) : e.customerId = c /\ e.type = type}

\* C6: the ledger balance computed for a customer is the sum of the amounts of
\* that customer's credit entries minus the sum of the amounts of that
\* customer's payment entries, whatever was posted for other customers.
C6_BalanceIdentity ==
  \A c \in CustomerIds :
    getCustomerBalance(c) = AmountSum(EntriesOf(c, "credit"))
                            - AmountSum(EntriesOf(c, "payment"))

\* both customers have credits and payments in the ledger, from an order on
\* account, a manual post and a migration
C6_Witness ==
  /\ \A c \in CustomerIds : EntriesOf(c, "credit") # {} /\ EntriesOf(c, "payment") # {}
  /\ \E e \in Range(ledger) : e.source = "app_order"
  /\ getCustomerBalance(1) # getCustomerBalance(2)

\* C7: the balance reported for a customer counts every credit and every
\* payment once: it is the credits minus the payments posted for the customer.
C7_CountedOnce ==
  AllIdle => \A c \in CustomerIds : ReportedBalance(c) = posted[c]

MigrateDone(r) == req[r].op = "migrate" /\ req[r].pc = "done"

\* C8: a migration run reports as migratedCredits and migratedPayments the
\* numbers of legacy records that had no ledger copy when it started, appends
\* that many entries, and leaves no legacy record without its copy; so the run
\* that follows on the same legacy data reports {0, 0} and appends nothing.
C8_MigrationIdempotent ==
  MigrateDone(1) =>
    /\ req[1].migratedCredits = req[1].pre.unmigratedCredits
    /\ req[1].migratedPayments = req[1].pre.unmigratedPayments
    /\ Len(ledger) = req[1].pre.nLedger + req[1].migratedCredits
                                        + req[1].migratedPayments
    /\ UnmigratedCredits = 0 /\ UnmigratedPayments = 0

\* a second run over a legacy credit and a legacy payment already copied
C8_Witness ==
  /\ MigrateDone(1)
  /\ req[1].entries # <<>> /\ req[1].payments # <<>>
  /\ req[1].migratedCredits = 0 /\ req[1].migratedPayments = 0
  /\ Len(ledger) = req[1].pre.nLedger
  /\ \E e \in Range(ledger) : e.source = "legacy_udhar"
  /\ \E e \in Range(ledger) : e.source = "legacy_payment"

\* positions of the ledger copies of a legacy record
Copies(source, legacyId) ==
  {j \in 1..Len(ledger) : ledger[j].source = source /\ ledger[j].legacyId = legacyId}

\* the legacy record has one ledger copy, of its customer and of the type
HasOneCopy(rec, source, type) ==
  /\ Cardinality(Copies(source, rec.id)) = 1
  /\ \A j \in Copies(source, rec.id) :
       ledger[j].customerId = rec.customerId /\ ledger[j].type = type

\* C9 as claimed: after a run, every legacy record has exactly one ledger
\* copy, with the same customerId and amount and the matching type.
C9_OneCopySameAmount ==
  MigrateDone(1) =>
    /\ \A k \in 1..Len(udharEntries) :
         /\ HasOneCopy(udharEntries[k], "legacy_udhar", "credit")
         /\ \A j \in Copies("legacy_udhar", udharEntries[k].id) :
              ledger[j].amount = udharEntries[k].amount
    /\ \A k \in 1..Len(udharPayments) :
         /\ HasOneCopy(udharPayments[k], "legacy_payment", "payment")
         /\ \A j \in Copies("legacy_payment", udharPayments[k].id) :
              ledger[j].amount = udharPayments[k].amount

\* C9 amended: after a run, every legacy record has exactly one ledger copy,
\* with the same customerId and the matching type; the copies the run itself
\* created carry the record's amount (a copy made by an earlier run keeps the
\* amount it was given, whatever an operator edited since).
C9_OneCopy ==
  MigrateDone(1) =>
    /\ \A k \in 1..Len(udharEntries) :
         /\ HasOneCopy(udharEntries[k], "legacy_udhar", "credit")
         /\ \A j \in Copies("legacy_udhar", udharEntries[k].id) :
              j > req[1].pre.nLedger => ledger[j].amount = udharEntries[k].amount
    /\ \A k \in 1..Len(udharPayments) :
         /\ HasOneCopy(udharPayments[k], "legacy_payment", "payment")
         /\ \A j \in Copies("legacy_payment", udharPayments[k].id) :
              j > req[1].pre.nLedger => ledger[j].amount = udharPayments[k].amount

\* a run has ended over a legacy credit whose copy, made by an earlier run,
\* no longer has the record's amount, and a legacy payment
C9_Witness ==
  /\ MigrateDone(1)
  /\ udharPayments # <<>>
  /\ \E k \in 1..Len(udharEntries) :
       \E j \in Copies("legacy_udhar", udharEntries[k].id) :
         j <= req[1].pre.nLedger /\ ledger[j].amount # udharEntries[k].amount

\* the order a finished convert-to-udhar or mark-paid request named, as the
\* request found it: its position in pre.orders, 0 when there was none
SeenIndex(r) ==
  LET os == req[r].pre.orders
  IN  IF \E k \in 1..Len(os) : os[k].id = req[r].orderId
      THEN CHOOSE k \in 1..Len(os) : os[k].id = req[r].orderId
      ELSE 0

HasCustomer(order) ==
  \E c \in customers : c.phone = order.phone \/ c.customerId = order.customerId

StoreAsSeen(r) ==
  /\ orders = req[r].pre.orders
  /\ ledger = req[r].pre.ledger
  /\ udharEntries = req[r].pre.udharEntries
  /\ udharPayments = req[r].pre.udharPayments

OrderCredits(orderId) ==
  {j \in 1..Len(ledger) : ledger[j].source = "app_order" /\ ledger[j].orderId = orderId}

\* C11: convert-to-udhar on an order already added to udhar, or with no
\* matching customer, is rejected and leaves ledger, legacy stores and orders
\* unchanged; on any other existing order it appends one credit tagged
\* app_order for the order's total, linked to the order, and sets addedToUdhar;
\* an order never has more than one such credit.
C11_ConvertOnce ==
  (req[1].op = "convert" /\ req[1].pc = "done") =>
    LET k == SeenIndex(1) IN
    /\ k = 0 => req[1].result = "not_found" /\ StoreAsSeen(1)
    /\ k # 0 =>
         LET o == req[1].pre.orders[k] IN
         IF o.addedToUdhar \/ ~HasCustomer(o)
         THEN /\ req[1].result \in {"already_added", "no_customer"}
              /\ StoreAsSeen(1)
         ELSE /\ req[1].result = "ok"
              /\ Len(ledger) = Len(req[1].pre.ledger) + 1
              /\ SubSeq(ledger, 1, Len(ledger) - 1) = req[1].pre.ledger
              /\ LET e == ledger[Len(ledger)]
                 IN  /\ e.type = "credit" /\ e.source = "app_order"
                     /\ e.amount = o.total /\ e.orderId = o.id
                     /\ \E c \in customers :
                          /\ c.phone = o.phone \/ c.customerId = o.customerId
                          /\ e.customerId = c.customerId
              /\ orders[k].addedToUdhar
              /\ \A j \in 1..Len(orders) : j # k => orders[j] = req[1].pre.orders[j]
    /\ \A j \in 1..Len(orders) : Cardinality(OrderCredits(orders[j].id)) <= 1

\* a second conversion of an order that a first conversion put on the ledger
\* has been refused
C11_Witness ==
  /\ req[1].op = "convert" /\ req[1].pc = "done"
  /\ req[1].result = "already_added"
  /\ SeenIndex(1) # 0
  /\ req[1].pre.orders[SeenIndex(1)].paymentMethod = "cod"
  /\ Cardinality(OrderCredits(req[1].orderId)) = 1

\* C12: mark-paid on an existing order with a matching customer appends one
\* payment entry of the order's total, source order_payment, linked to the
\* order, and sets paid; when the order or the customer does not exist it
\* answers not-found and changes nothing.
C12_MarkPaid ==
  (req[1].op = "markPaid" /\ req[1].pc = "done") =>
    LET k == SeenIndex(1) IN
    IF k = 0 \/ ~HasCustomer(req[1].pre.orders[k])
    THEN req[1].result = "not_found" /\ StoreAsSeen(1)
    ELSE LET o == req[1].pre.orders[k] IN
         /\ req[1].result = "ok"
         /\ Len(ledger) = Len(req[1].pre.ledger) + 1
         /\ SubSeq(ledger, 1, Len(ledger) - 1) = req[1].pre.ledger
         /\ LET e == ledger[Len(ledger)]
            IN  /\ e.type = "payment" /\ e.source = "order_payment"
                /\ e.amount = o.total /\ e.orderId = o.id
         /\ orders = [req[1].pre.orders EXCEPT ![k].paid = TRUE]
         /\ udharEntries = req[1].pre.udharEntries
         /\ udharPayments = req[1].pre.udharPayments

\* an order of customer 1 has been marked paid
C12_Witness ==
  /\ req[1].op = "markPaid" /\ req[1].pc = "done" /\ req[1].result = "ok"
  /\ orders[OrderIndex(req[1].orderId)].paid
  /\ ledger[Len(ledger)].type = "payment" /\ ledger[Len(ledger)].amount = 5

\* the order ids held by the requests in progress, per slot
HeldIds == {r \in Slots : req[r].op = "order" /\ req[r].id # null}

\* slot r obtains its order id in this step
DrawsId(r) ==
  /\ req[r].op = "order" /\ req[r].id = null
  /\ req'[r].op = "order" /\ req'[r].id # null

\* C13: concurrent getNextId calls for one counter never return the same
\* value: the ids held by requests and stored in orders are pairwise
\* distinct, every value drawn is greater than all drawn before (the counter
\* is stored with it and never goes back), also when the caller then fails.
C13_UniqueIds ==
  /\ [](/\ \A r1, r2 \in HeldIds : r1 # r2 => req[r1].id # req[r2].id
        /\ \A j, k \in 1..Len(orders) : j # k => orders[j].id # orders[k].id
        /\ \A r \in HeldIds : req[r].id <= counters.orderId
        /\ \A k \in 1..Len(orders) : orders[k].id <= counters.orderId)
  /\ [][/\ counters'.orderId >= counters.orderId
        /\ \A r \in Slots :
             DrawsId(r) => /\ req'[r].id > counters.orderId
                           /\ req'[r].id = counters'.orderId]_vars

\* two requests drew ids 1 and 2 while both were running; the one holding 1
\* failed, the order with id 2 is stored and id 1 names no order
C13_Witness ==
  /\ \E r \in HeldIds : req[r].id = 1 /\ req[r].result = "error"
  /\ \E r \in HeldIds : req[r].id = 2 /\ req[r].result = "ok"
  /\ Len(orders) = 1 /\ orders[1].id = 2

\* C14: the unit price for quantity q is the price of a tier with the
\* greatest minQty <= q among the variant's tiers, and the price of a tier
\* with the lowest minQty when no tier has minQty <= q; tiers {1: 80, 5: 70}
\* give 80 for 4, 70 for 5 and 70 for 100.
C14_TierSelection ==
  (req[1].op = "price" /\ req[1].pc = "done") =>
    LET all == Range(req[1].priceTiers)
        q == req[1].qty
        ok == {t \in all : t.minQty <= q}
    IN  /\ ok # {} =>
             \E t \in ok : /\ \A u \in ok : u.minQty <= t.minQty
                            /\ req[1].serverPrice = t.price
        /\ ok = {} =>
             \E t \in all : /\ \A u \in all : t.minQty <= u.minQty
                             /\ req[1].serverPrice = t.price
        /\ Range(req[1].priceTiers) = {Tier(1, 80), Tier(5, 70)} =>
             req[1].serverPrice = (IF q >= 5 THEN 70 ELSE 80)

\* the tiers stored with the higher threshold first, priced for quantity 5
C14_Witness ==
  /\ req[1].op = "price" /\ req[1].pc = "done"
  /\ req[1].priceTiers = <<Tier(5, 70), Tier(1, 80)>>
  /\ req[1].qty = 5 /\ req[1].serverPrice = 70

StatementDone == req[1].op = "statement" /\ req[1].pc = "done" /\ req[1].result = "ok"

\* the milk logs and milk payments of the statement's customer and month
MonthLogs ==
  {k \in 1..Len(milkLogs) :
     milkLogs[k].customerId = req[1].cid /\ milkLogs[k].month = req[1].month}
MonthMilkPayments ==
  {k \in 1..Len(milkPayments) :
     milkPayments[k].customerId = req[1].cid /\ milkPayments[k].month = req[1].month}

\* C15: in the monthly statement outstanding = (milkTotal + orderTotal +
\* udharTotal) - paymentsTotal, each total being the sum of the amounts of the
\* statement's entries of its category; one milk log of qty 2 at price 60 and
\* one payment of 50 in the month give milkTotal 120, paymentsTotal 50 and,
\* with nothing else in the month, outstanding 70.
C15_StatementSummary ==
  StatementDone =>
    LET es == req[1].entries
        sm == req[1].summary
        Total(types) == SumSeq([k \in 1..Len(es) |->
                          IF es[k].type \in types THEN es[k].amount ELSE 0])
    IN  /\ sm.milkTotal = Total({"milk"})
        /\ sm.orderTotal = Total({"order"})
        /\ sm.udharTotal = Total({"udhar"})
        /\ sm.paymentsTotal = Total({"payment", "udhar_payment"})
        /\ sm.outstanding = (sm.milkTotal + sm.orderTotal + sm.udharTotal)
                             - sm.paymentsTotal
        /\ \A k \in 1..Len(es) :
             es[k].type \in {"milk", "order", "udhar", "payment", "udhar_payment"}
        /\ ( /\ Cardinality(MonthLogs) = 1
             /\ \A k \in MonthLogs : /\ milkLogs[k].qty = 2 /\ milkLogs[k].price = 60
                                      /\ milkLogs[k].items = <<>>
             /\ Cardinality(MonthMilkPayments) = 1
             /\ \A k \in MonthMilkPayments : milkPayments[k].amount = 50 )
          => /\ sm.milkTotal = 120
             /\ Len(es) = 2 => sm.paymentsTotal = 50 /\ sm.outstanding = 70

\* the statement of the month with one milk log of 2 at 60, one milk payment
\* of 50 and nothing else
C15_Witness ==
  /\ StatementDone
  /\ Len(req[1].entries) = 2
  /\ req[1].summary.milkTotal = 120
  /\ req[1].summary.paymentsTotal = 50
  /\ req[1].summary.outstanding = 70

\* C16: the monthly statement lists a legacy credit or payment record only
\* while the record has no copy in the ledger: a migrated record appears as
\* its ledger entry and not again as a legacy row.
C16_NoMigratedLegacyRow ==
  StatementDone =>
    \A k \in 1..Len(req[1].entries) :
      LET e == req[1].entries[k] IN
      /\ e.id[1] = "udhar" =>
           ~ \E j \in 1..Len(ledger) :
               ledger[j].source = "legacy_udhar" /\ ledger[j].legacyId = e.id[2]
      /\ e.id[1] = "udpay" =>
           ~ \E j \in 1..Len(ledger) :
               ledger[j].source = "legacy_payment" /\ ledger[j].legacyId = e.id[2]

BillingDone == req[1].op = "billing" /\ req[1].pc = "done"

\* the customers a billing has a row for: subscribed and not soft-deleted
Billable ==
  {c.customerId : c \in {x \in customers :
     /\ ~x.deleted
     /\ \E k \in 1..Len(milkSubscriptions) : milkSubscriptions[k].customerId = x.customerId}}

\* what customer c was delivered and paid in month m
BilledOf(c, m) ==
  SumSeq([k \in 1..Len(milkLogs) |->
            IF milkLogs[k].customerId = c /\ milkLogs[k].month = m
            THEN (IF milkLogs[k].items # <<>> THEN ItemsAmount(milkLogs[k].items)
                  ELSE milkLogs[k].qty * milkLogs[k].price)
            ELSE 0])
PaidOf(c, m) ==
  SumSeq([k \in 1..Len(milkPayments) |->
            IF milkPayments[k].customerId = c /\ milkPayments[k].month = m
            THEN milkPayments[k].amount ELSE 0])

\* C17: the milk billing of a month has one row for each customer that has a
\* subscription and is not soft-deleted and no other row; a row's due is its
\* totalBilled - totalPaid, from that customer's logs and milk payments of
\* the month only; the store totals are the sums of the rows.
C17_MilkBilling ==
  BillingDone =>
    LET rows == req[1].billing
        m == req[1].month
    IN  /\ {rows[k].customerId : k \in 1..Len(rows)} = Billable
        /\ Len(rows) = Cardinality(Billable)
        /\ \A k \in 1..Len(rows) :
             /\ rows[k].totalBilled = BilledOf(rows[k].customerId, m)
             /\ rows[k].totalPaid = PaidOf(rows[k].customerId, m)
             /\ rows[k].due = rows[k].totalBilled - rows[k].totalPaid
        /\ req[1].totals.totalBilled = SumSeq([k \in 1..Len(rows) |-> rows[k].totalBilled])
        /\ req[1].totals.totalPaid = SumSeq([k \in 1..Len(rows) |-> rows[k].totalPaid])
        /\ req[1].totals.totalDue = SumSeq([k \in 1..Len(rows) |-> rows[k].due])

\* a billing with one row, for a subscriber with a delivery and a payment in
\* the month, while the other subscriber is soft-deleted
C17_Witness ==
  /\ BillingDone
  /\ Len(milkSubscriptions) = 2
  /\ Len(req[1].billing) = 1
  /\ req[1].billing[1].totalBilled = 120
  /\ req[1].billing[1].due = 70

\* C18: a migration run deletes and modifies no legacy record: udharEntries
\* and udharPayments are, during and after the run, what the run read.
C18_LegacyUntouched ==
  req[1].op = "migrate" =>
    /\ udharEntries = req[1].entries
    /\ udharPayments = req[1].payments

\* a run that copied a legacy credit and a legacy payment has ended
C18_Witness ==
  /\ MigrateDone(1)
  /\ req[1].migratedCredits >= 1 /\ req[1].migratedPayments >= 1
  /\ udharEntries # <<>> /\ udharPayments # <<>>

\* C19: at most one milk log per (customerId, date), whatever the interleaving
\* of POST /api/admin/milk/logs and POST /api/admin/milk/bulk-mark.
C19_OneLogPerDay ==
  \A j, k \in 1..Len(milkLogs) :
    (milkLogs[j].customerId = milkLogs[k].customerId
       /\ milkLogs[j].date = milkLogs[k].date) => j = k

\* some record of a collection refers to the customer
RefersTo(c) ==
  \/ \E x \in customers : x.customerId = c
  \/ \E k \in 1..Len(milkSubscriptions) : milkSubscriptions[k].customerId = c
  \/ \E k \in 1..Len(ledger) : ledger[k].customerId = c
  \/ \E k \in 1..Len(udharEntries) : udharEntries[k].customerId = c
  \/ \E k \in 1..Len(udharPayments) : udharPayments[k].customerId = c
  \/ \E k \in 1..Len(milkLogs) : milkLogs[k].customerId = c
  \/ \E k \in 1..Len(milkPayments) : milkPayments[k].customerId = c
  \/ \E k \in 1..Len(orders) : orders[k].customerId = c

\* C20: a hard delete (the step after which the customer record is gone)
\* leaves no record that refers to the customerId, orders included.
C20_HardDeleteCascades ==
  [][\A c \in CustomerIds :
       ((\E x \in customers : x.customerId = c)
          /\ ~ \E x \in customers' : x.customerId = c) => ~ RefersTo(c)']_vars

\* the status changes of the order lifecycle
LifecycleStep(from, to) ==
  \/ from = "pending" /\ to = "preparing"
  \/ from = "preparing" /\ to = "out-for-delivery"
  \/ from = "out-for-delivery" /\ to = "delivered"
  \/ from \in {"pending", "preparing", "out-for-delivery"} /\ to = "cancelled"

\* C21: an order is created pending, and every change of an order's status is
\* a step pending -> preparing -> out-for-delivery -> delivered, or a step to
\* cancelled.
C21_StatusLifecycle ==
  [][/\ \A k \in 1..Len(orders') :
          k > Len(orders) => orders'[k].status = "pending"
     /\ \A k \in 1..Len(orders) :
          orders'[k].status # orders[k].status
            => LifecycleStep(orders[k].status, orders'[k].status)]_vars

\* C22: every ledger entry has type credit or payment, a customerId and a
\* positive amount, in every reachable state.
C22_LedgerEntryShape ==
  \A k \in 1..Len(ledger) :
    /\ ledger[k].type \in {"credit", "payment"}
    /\ ledger[k].customerId # null
    /\ ledger[k].amount > 0

\* a step of PUT or DELETE /api/admin/ledger/:id: the ledger changes and no
\* id is drawn
LedgerEditStep == ledger' # ledger /\ counters' = counters

\* C30: an edit or a delete of a ledger entry changes that entry only: no
\* product and no order changes, and an edit leaves the entry's type and
\* customerId as they were.
C30_LedgerEditFrame ==
  [][LedgerEditStep =>
       /\ products' = products /\ orders' = orders
       /\ Len(ledger') = Len(ledger) =>
            \E id \in 1..MaxLedger : \A k \in 1..Len(ledger) :
              IF ledger[k].id = id
              THEN /\ ledger'[k].id = id
                   /\ ledger'[k].type = ledger[k].type
                   /\ ledger'[k].customerId = ledger[k].customerId
              ELSE ledger'[k] = ledger[k]
       /\ Len(ledger') # Len(ledger) =>
            \E id \in 1..MaxLedger :
              ledger' = SelectSeq(ledger, LAMBDA e : e.id # id)]_vars

\* an entry was edited (amount and date) and another was deleted, while an
\* order placed on account is stored
C30_Witness ==
  /\ \E k \in 1..Len(ledger) : ledger[k].amount = 5 /\ ledger[k].month = LastMonth
  /\ counters.ledgerId > Len(ledger)
  /\ \E k \in 1..Len(orders) : orders[k].addedToUdhar

\* C23: no operation appends a record to the legacy stores udharEntries and
\* udharPayments.
C23_NoNewLegacyRecord ==
  [][/\ Len(udharEntries') <= Len(udharEntries)
     /\ Len(udharPayments') <= Len(udharPayments)]_vars

\* C26: once the request has ended, with or without a storage failure, every
\* app_order credit of the ledger is linked to a stored order.
C26_CreditHasOrder ==
  AllIdle =>
  \A k \in 1..Len(ledger) :
    ledger[k].source = "app_order" =>
      \E j \in 1..Len(orders) : orders[j].id = ledger[k].orderId

\* C24: a customer has at most one milk subscription in every reachable
\* state, concurrent create requests included.
C24_OneSubscription ==
  \A j, k \in 1..Len(milkSubscriptions) :
    milkSubscriptions[j].customerId = milkSubscriptions[k].customerId => j = k

MigrationCopiesUnique ==
  /\ \A k \in 1..Len(udharEntries) :
       Cardinality(Copies("legacy_udhar", udharEntries[k].id)) <= 1
  /\ \A k \in 1..Len(udharPayments) :
       Cardinality(Copies("legacy_payment", udharPayments[k].id)) <= 1
  /\ MigrateDone(1) =>
       /\ \A k \in 1..Len(req[1].entries) :
            Cardinality(Copies("legacy_udhar", req[1].entries[k].id)) = 1
       /\ \A k \in 1..Len(req[1].payments) :
            Cardinality(Copies("legacy_payment", req[1].payments[k].id)) = 1

\* C27: a legacy record written while a run is in progress is neither lost
\* nor duplicated. When a run that read every legacy record has completed and
\* no post is in flight, the ledger holds each customer's credits and
\* payments once: its balance is what was posted for the customer.
C27_NeitherLostNorDuplicated ==
  (/\ MigrateDone(1) /\ req[2].op = "idle"
   /\ req[1].entries = udharEntries /\ req[1].payments = udharPayments)
    => \A c \in CustomerIds : getCustomerBalance(c) = posted[c]

\* C28: order placement, convert-to-udhar, mark-paid, order status edits and
\* migration only append to the ledger: every entry already posted stays as
\* it is, at its place.
C28_LedgerAppendOnly ==
  [][/\ Len(ledger') >= Len(ledger)
     /\ \A k \in 1..Len(ledger) : ledger'[k] = ledger[k]]_vars

\* the ledger holds the credit of an order, the payment of an order and the
\* copy of a legacy record, and an order has been cancelled
C28_Witness ==
  /\ \E k \in 1..Len(ledger) : ledger[k].source = "app_order"
  /\ \E k \in 1..Len(ledger) : ledger[k].source = "order_payment"
  /\ \E k \in 1..Len(ledger) : ledger[k].source = "legacy_udhar"
  /\ \E k \in 1..Len(orders) : orders[k].status = "cancelled"

\* the unit price of the tiers of the line's variant for the line's quantity
TierPriceOfLine(line) ==
  TierPriceOf(FindVariant(Catalog[line.productId], line.variantId).priceTiers, line.qty)

\* C29: an untracked product (stockQuantity null) stays untracked through
\* orders and cancellations; an order is never rejected for stock at a line of
\* an untracked product, whatever the quantity; and the stored line of an
\* untracked product carries the unit price of its tiers.
C29_UntrackedProduct ==
  /\ ~products[2].tracked /\ products[2].stockQuantity = 0
  /\ (req[1].op = "order" /\ req[1].result \in StockRejections)
       => products[req[1].regularItems[req[1].i].productId].tracked
  /\ \A k \in 1..Len(orders) : \A i \in 1..Len(orders[k].items) :
       ~products[orders[k].items[i].productId].tracked
         => orders[k].items[i].price = TierPriceOfLine(orders[k].items[i])

\* an order of 100 units of the untracked product was stored, priced 5 a
\* unit, and cancelled
C29_Witness ==
  \E k \in 1..Len(orders) :
    /\ orders[k].items[1].productId = 2 /\ orders[k].items[1].qty = 100
    /\ orders[k].total = 500
    /\ orders[k].status = "cancelled" /\ orders[k].stockRestored

\* C31: no ledger entry is posted to the account of a soft-deleted customer:
\* the customer of every entry appended is, at that moment, not deleted.
C31_NoPostToDeleted ==
  [][Len(ledger') > Len(ledger) =>
       \A c \in customers :
         c.customerId = ledger'[Len(ledger')].customerId => ~c.deleted]_vars

StatusComputed == req[1].op = "stockStatus" /\ req[1].pc = "done"

\* the threshold in force: the field's number, 5 when it holds none
ThresholdOf(t) == IF t.isNumber THEN t.n ELSE 5

RECURSIVE UnitsOf(_, _)
UnitsOf(items, pid) ==
  IF items = <<>> THEN 0
  ELSE (IF Head(items).productId = pid /\ IsRegular(Head(items))
        THEN Head(items).qty ELSE 0) + UnitsOf(Tail(items), pid)

\* the units of a product held by persisted orders whose stock is not restored
RECURSIVE UnitsHeld(_, _)
UnitsHeld(os, pid) ==
  IF os = <<>> THEN 0
  ELSE (IF Head(os).stockRestored THEN 0 ELSE UnitsOf(Head(os).items, pid))
       + UnitsHeld(Tail(os), pid)

\* C33: stock conservation. With no request in flight, the stockQuantity of
\* the tracked product 1 plus the units of it on non-gift lines of persisted
\* orders whose stock has not been restored equals its initial stockQuantity.
C33_StockConservation ==
  AllIdle => products[1].stockQuantity + UnitsHeld(orders, 1) = MaxStock

\* no status edit is between its read of the order and its write
NoEditInFlight ==
  \A r \in Slots : req[r].op = "updateOrder" => req[r].pc = "done"

\* C34: concurrent cancellations release the stock of an order at most once:
\* once the edits have written, the stockQuantity of product 1 plus the units
\* held by orders not restored does not exceed the initial stockQuantity.
C34_ReleasedOnce ==
  NoEditInFlight => products[1].stockQuantity + UnitsHeld(orders, 1) <= MaxStock

\* C35: overlapping migration runs never create two ledger entries for one
\* legacy record: at most one entry per (source, legacyId) with source
\* legacy_udhar or legacy_payment, in every reachable state.
C35_OneEntryPerLegacyRecord ==
  \A j, k \in 1..Len(ledger) :
    (/\ ledger[j].source \in {"legacy_udhar", "legacy_payment"}
     /\ ledger[j].source = ledger[k].source
     /\ ledger[j].legacyId = ledger[k].legacyId) => j = k

\* C36: for every order the ledger holds at most one credit entry with source
\* app_order and that orderId, in every reachable state, concurrent
\* conversions of one order included.
C36_OneOrderCredit ==
  \A j, k \in 1..Len(ledger) :
    (/\ ledger[j].source = "app_order" /\ ledger[j].type = "credit"
     /\ ledger[k].source = "app_order" /\ ledger[k].type = "credit"
     /\ ledger[j].orderId # null
     /\ ledger[j].orderId = ledger[k].orderId) => j = k

\* C37: POST /api/orders never increases the stockQuantity of a product and
\* never persists an order with a negative total or with a line of quantity
\* below 1, whatever the quantities of the submitted cart.
C37_CartSafety ==
  [][/\ \A p \in ProductIds : products'[p].stockQuantity <= products[p].stockQuantity
     /\ \A k \in 1..Len(orders') :
          /\ orders'[k].total >= 0
          /\ \A i \in 1..Len(orders'[k].items) : orders'[k].items[i].qty >= 1]_vars

\* the payment entries of an order in a ledger
OrderPayments(entries, orderId) ==
  {j \in 1..Len(entries) :
     entries[j].source = "order_payment" /\ entries[j].orderId = orderId}

BalanceIn(entries, customerId) ==
  BalanceFold(SelectSeq(entries, LAMBDA e : e.customerId = customerId), 0)

\* C38: mark-paid has no already-paid guard. Every successful call, on an
\* order already paid included, appends one more payment entry of the order's
\* total: the customer's balance is lower by that total than the call found
\* it, the order has one more payment entry, each of them of the order's
\* total, and paid is true.
C38_MarkPaidRepeats ==
  (req[1].op = "markPaid" /\ req[1].pc = "done" /\ req[1].result = "ok") =>
    LET o == req[1].pre.orders[SeenIndex(1)]
        c == req[1].customerId
    IN  /\ BalanceIn(ledger, c) = BalanceIn(req[1].pre.ledger, c) - o.total
        /\ Cardinality(OrderPayments(ledger, o.id))
             = Cardinality(OrderPayments(req[1].pre.ledger, o.id)) + 1
        /\ \A j \in OrderPayments(ledger, o.id) :
             ledger[j].type = "payment" /\ ledger[j].amount = o.total
        /\ orders[OrderIndex(o.id)].paid

\* a cash order already paid has been marked paid a second time: two payment
\* entries, and a balance of minus twice its total
C38_Witness ==
  /\ req[1].op = "markPaid" /\ req[1].pc = "done" /\ req[1].result = "ok"
  /\ req[1].pre.orders[SeenIndex(1)].paid
  /\ req[1].pre.orders[SeenIndex(1)].paymentMethod = "cod"
  /\ Cardinality(OrderPayments(ledger, req[1].orderId)) = 2
  /\ BalanceIn(ledger, req[1].customerId) = -2 * req[1].pre.orders[SeenIndex(1)].total

\* two checkouts of product 1 that both arrived before either had reserved,
\* and have both been answered
ConcurrentCheckouts(r1, r2) ==
  /\ r1 # r2
  /\ OrderDone(r1) /\ OrderDone(r2)
  /\ req[r1].pre.products[1].stockQuantity = req[r2].pre.products[1].stockQuantity

RequestedQty(r) == req[r].body.items[1].qty

\* C39 as claimed: concurrent checkouts of a tracked product whose quantities
\* sum to at most its stockQuantity all succeed, and the stock ends at the
\* initial value minus the sum.
C39_NoSpuriousRejectionAsClaimed ==
  \A r1, r2 \in Slots :
    (/\ ConcurrentCheckouts(r1, r2)
     /\ RequestedQty(r1) + RequestedQty(r2) <= req[r1].pre.products[1].stockQuantity)
      => /\ req[r1].result = "ok" /\ req[r2].result = "ok"
         /\ products[1].stockQuantity =
              req[r1].pre.products[1].stockQuantity - RequestedQty(r1) - RequestedQty(r2)

\* C39 amended: concurrent checkouts of a tracked product that each request
\* at least one unit, and whose quantities sum to at most its stockQuantity,
\* all succeed for every interleaving, and the stock ends at the initial value
\* minus the sum.
C39_NoSpuriousRejection ==
  \A r1, r2 \in Slots :
    (/\ ConcurrentCheckouts(r1, r2)
     /\ RequestedQty(r1) >= 1 /\ RequestedQty(r2) >= 1
     /\ RequestedQty(r1) + RequestedQty(r2) <= req[r1].pre.products[1].stockQuantity)
      => /\ req[r1].result = "ok" /\ req[r2].result = "ok"
         /\ products[1].stockQuantity =
              req[r1].pre.products[1].stockQuantity - RequestedQty(r1) - RequestedQty(r2)

\* two checkouts of one unit each arrived while two units were left, and both
\* were accepted
C39_Witness ==
  /\ ConcurrentCheckouts(1, 2)
  /\ req[1].pre.products[1].stockQuantity = 2
  /\ RequestedQty(1) = 1 /\ RequestedQty(2) = 1
  /\ req[1].result = "ok" /\ req[2].result = "ok"
  /\ products[1].stockQuantity = 0

\* the debit rows of a statement that stand for an order: its app-order row,
\* the rows of its app_order ledger credits and of its legacy copies
IsRowOfOrder(e, orderId) ==
  \/ e.id = <<"order", orderId>>
  \/ /\ e.id[1] = "ledger"
     /\ \E j \in 1..Len(ledger) :
          /\ ledger[j].id = e.id[2] /\ ledger[j].source = "app_order"
          /\ ledger[j].type = "credit" /\ ledger[j].orderId = orderId
  \/ /\ e.id[1] = "udhar"
     /\ \E j \in 1..Len(udharEntries) :
          udharEntries[j].id = e.id[2] /\ udharEntries[j].orderId = orderId

OrderDebits(entries, orderId) ==
  SumSeq([k \in 1..Len(entries) |->
            IF IsRowOfOrder(entries[k], orderId) /\ entries[k].type \in {"order", "udhar"}
            THEN entries[k].amount ELSE 0])

\* C40: an order placed on account contributes its total exactly once to the
\* totalDebits of the customer's statement of its month: the debit rows that
\* stand for the order sum to its total.
C40_OrderCountedOnce ==
  StatementDone =>
    \A k \in 1..Len(orders) :
      (/\ orders[k].paymentMethod = "account"
       /\ orders[k].customerId = req[1].cid
       /\ orders[k].month = req[1].month
       /\ orders[k].status # "cancelled")
        => OrderDebits(req[1].entries, orders[k].id) = orders[k].total

====
